---------------------------- MODULE Spec2Model ----------------------------
(***************************************************************************)
(* ChemClub Analyst: the shape registry (AppContext), auto-detection       *)
(* (handleAutoDetect / autoDetectCircles / autoDetectRectangles), manual   *)
(* draw-commit (ImageViewer.handleMouseUp) and the regression studio       *)
(* (handleConcentrationChange / runRegression / importModel / predict).    *)
(*                                                                         *)
(* Numbers that are floating point in the program are exact rationals      *)
(* <<numerator, denominator>> here (denominator > 0, lowest terms).        *)
(***************************************************************************)
EXTENDS Integers, Sequences, FiniteSets, TLC

VARIABLES
    images,             \* AppContext: images (a sequence of image identities)
    currentImageIndex,  \* AppContext: currentImageIndex
    shapes,             \* AppContext: shapes (a sequence of Shape records)
    cvReady,            \* window.cv is loaded (isOpenCVReady)
    isDetecting,        \* App: isDetecting
    pending,            \* the setTimeout callback of handleAutoDetect, with its closure
    mode,               \* detectionSettings.mode
    committedPoints,    \* AppContext: committedPoints
    regressionModels,   \* AppContext: regressionModels
    nextImg,            \* number of images loaded so far (identity of the next one)
    boundingBox,        \* AppContext: boundingBox, the region of interest or NoBox
    sample,             \* a colour extraction: its arguments, then what it sampled
    now,                \* cacheUtils: the time, in milliseconds
    timers,             \* cacheUtils: the setTimeout callbacks not yet run or cleared
    saveTimeout,        \* cacheUtils: saveTimeout, the handle of the last timer or null
    localStorage,       \* cacheUtils: the item STATE_KEY of localStorage
    indexedDB,          \* cacheUtils: the images of the IMAGE_STORE
    calls,              \* history: the calls of debouncedSaveState
    lastWrite,          \* history: the last save that ran
    lastOp              \* history: the last handler that ran, its argument, its alert

cacheVars == <<now, timers, saveTimeout, localStorage, indexedDB, calls, lastWrite>>

vars == <<images, currentImageIndex, shapes, cvReady, isDetecting, pending, mode,
          committedPoints, regressionModels, nextImg, boundingBox, sample, cacheVars, lastOp>>

-----------------------------------------------------------------------------
(* Bounds of the model *)

\* Spec: images loaded at a time, images ever loaded, shapes in the registry,
\* candidates the detector finds
MaxImages == 2
MaxLoads == 2
MaxShapes == 2
MaxDetect == 2

\* SpecRegistry: images loaded at the start, shapes in the registry
RegImages == 3
RegShapes == 3

\* SpecDetect: shapes in the registry, candidates the detector finds
DetShapes == 2
DetDetect == 2

\* SpecSeq: shapes in the registry, and how many of them are drawn by hand
SeqShapes == 28
SeqManual == 2

-----------------------------------------------------------------------------
(* Generic helpers *)

Max2(a, b) == IF a > b THEN a ELSE b

Abs(a) == IF a < 0 THEN -a ELSE a

\* Array.prototype.find's "not found"
Undefined == [undefined |-> TRUE]

-----------------------------------------------------------------------------
(* Numbers: a JavaScript number is the exact value n / (d * 10^e), written
   <<n, d, e>> with d > 0 coprime to n and to 10, and e >= 0 as small as possible *)

RECURSIVE GCD(_, _)
GCD(a, b) == IF b = 0 THEN a ELSE GCD(b, a % b)

RECURSIVE Pow10(_)
Pow10(k) == IF k = 0 THEN 1 ELSE 10 * Pow10(k - 1)

RECURSIVE DivPow10(_, _)
DivPow10(a, k) == IF k = 0 \/ a = 0 THEN a ELSE DivPow10(a \div 10, k - 1)

RECURSIVE QStrip(_, _, _)
QStrip(n, d, e) ==
    IF e > 0 /\ n % 10 = 0 THEN QStrip(n \div 10, d, e - 1) ELSE <<n, d, e>>

RECURSIVE QAbsorb(_, _, _)
QAbsorb(n, d, e) ==
    IF d % 2 = 0 THEN QAbsorb(n * 5, d \div 2, e + 1)
    ELSE IF d % 5 = 0 THEN QAbsorb(n * 2, d \div 5, e + 1)
    ELSE QStrip(n, d, e)

QNorm(n, d, e) ==
    LET s == IF d < 0 THEN -1 ELSE 1
        g == GCD(Abs(n), Abs(d))
        k == IF e < 0 THEN Pow10(-e) ELSE 1
    IN  QAbsorb(((s * n) \div g) * k, (s * d) \div g, IF e < 0 THEN 0 ELSE e)

QInt(n) == <<n, 1, 0>>

QAdd(p, q) ==
    LET e == Max2(p[3], q[3])
        l == (p[2] \div GCD(p[2], q[2])) * q[2]
    IN  IF p[1] = 0 THEN q
        ELSE IF q[1] = 0 THEN p
        ELSE QNorm(p[1] * Pow10(e - p[3]) * (l \div p[2])
                      + q[1] * Pow10(e - q[3]) * (l \div q[2]), l, e)

QNeg(p) == <<-p[1], p[2], p[3]>>

QSub(p, q) == QAdd(p, QNeg(q))

QMul(p, q) ==
    LET g1 == GCD(Abs(p[1]), q[2])
        g2 == GCD(Abs(q[1]), p[2])
    IN  QNorm((p[1] \div g1) * (q[1] \div g2), (p[2] \div g2) * (q[2] \div g1), p[3] + q[3])

\* p / q, q # 0
QDiv(p, q) ==
    LET g1 == GCD(Abs(p[1]), Abs(q[1]))
        g2 == GCD(p[2], q[2])
    IN  QNorm((p[1] \div g1) * (q[2] \div g2), (p[2] \div g2) * (q[1] \div g1), p[3] - q[3])

QLt(p, q) == QSub(p, q)[1] < 0

\* Math.abs(p) < 1e-10, that is |n| * 10^10 < d * 10^e, without leaving 32-bit integers
BelowEpsilon(p) ==
    IF p[3] >= 10 THEN DivPow10(Abs(p[1]), p[3] - 10) < p[2]
    ELSE Abs(p[1]) <= DivPow10(p[2] - 1, 10 - p[3])

\* Math.sqrt of a perfect square
Sqrt(n) == CHOOSE r \in 0..n : r * r = n

-----------------------------------------------------------------------------
(* Shapes and labels *)

\* const labels = 'abcdefghijklmnopqrstuvwxyz'
labels == <<"a", "b", "c", "d", "e", "f", "g", "h", "i", "j", "k", "l", "m",
            "n", "o", "p", "q", "r", "s", "t", "u", "v", "w", "x", "y", "z">>

ShapeIds(ss) == {ss[i].id : i \in 1..Len(ss)}

ShapeLabels(ss) == {ss[i].label : i \in 1..Len(ss)}

\* uuidv4(): an identifier no shape in `used` carries
FreshId(used) == CHOOSE n \in 1..(Cardinality(used) + 1) : n \notin used

\* The colours the synthetic images are painted in (each image is uniform), chosen
\* so that Math.sqrt(r*r + g*g + b*b) and the CMYK percentages are whole numbers.
Palette == << <<51, 0, 0>>, <<102, 0, 0>>, <<153, 0, 0>>, <<0, 204, 0>>, <<0, 0, 0>> >>

\* The pixels of image `img`: every pixel has this colour
ImageColor(img) == Palette[(img % Len(Palette)) + 1]

\* defaultDetectionSettings
minArea == 500

maxArea == 10000

\* const minSize = 5 (handleMouseUp)
minSize == 5

Shape(id, label, type, x, y, width, height, radius, color, imageIndex, auto, img) ==
    [id |-> id, label |-> label, type |-> type, x |-> x, y |-> y,
     width |-> width, height |-> height, radius |-> radius,
     color |-> color, imageIndex |-> imageIndex, auto |-> auto,
     origin |-> img]  \* origin: history, the image the shape was created on

ShapesOn(ss, idx) == SelectSeq(ss, LAMBDA s : s.imageIndex = idx)

ShapesOff(ss, idx) == SelectSeq(ss, LAMBDA s : s.imageIndex # idx)

\* while (labelIndex < labels.length && existingLabels.has(labels[labelIndex])) labelIndex++
RECURSIVE SkipUsed(_, _)
SkipUsed(labelIndex, existing) ==
    IF labelIndex < Len(labels) /\ labels[labelIndex + 1] \in existing
    THEN SkipUsed(labelIndex + 1, existing)
    ELSE labelIndex

\* labelIndex < labels.length ? labels[labelIndex] : `?${i + 1}`   (i counts from 0)
DetectLabel(labelIndex, i) ==
    IF labelIndex < Len(labels) THEN labels[labelIndex + 1] ELSE "?" \o ToString(i + 1)

\* The for loop of autoDetectCircles over the circles HoughCircles returned.
\* i counts from 0; `out` are the shapes pushed so far.
RECURSIVE CirclesLoop(_, _, _, _, _, _, _, _)
CirclesLoop(i, circles, labelIndex0, existing, out, imageIndex, img, usedIds) ==
    IF i >= Len(circles) THEN out
    ELSE
        LET c == circles[i + 1]
            labelIndex == SkipUsed(labelIndex0, existing)
            label == DetectLabel(labelIndex, i)
            id == FreshId(usedIds \cup ShapeIds(out))
            shape == Shape(id, label, "circle", c.x, c.y, 0, 0, c.radius,
                           ImageColor(img), imageIndex, TRUE, img)
        IN  CirclesLoop(i + 1, circles, labelIndex + 1, existing \cup {label},
                        Append(out, shape), imageIndex, img, usedIds)

autoDetectCircles(circles, imageIndex, existingLabels, img, usedIds) ==
    CirclesLoop(0, circles, 0, existingLabels, <<>>, imageIndex, img, usedIds)

\* if (aspectRatio > 0.5 && aspectRatio < 2.0), aspectRatio = rect.width / rect.height
AspectOk(width, height) == 2 * width > height /\ width < 2 * height

\* A contour passes the filters of autoDetectRectangles
ContourAccepted(c) ==
    /\ ~(c.area < minArea \/ c.area > maxArea)
    /\ c.rows = 4
    /\ AspectOk(c.width, c.height)

\* The for loop of autoDetectRectangles over the contours findContours returned
RECURSIVE RectanglesLoop(_, _, _, _, _, _, _, _)
RectanglesLoop(i, contours, labelIndex0, existing, out, imageIndex, img, usedIds) ==
    IF i >= Len(contours) THEN out
    ELSE IF ~ContourAccepted(contours[i + 1])
    THEN RectanglesLoop(i + 1, contours, labelIndex0, existing, out, imageIndex, img, usedIds)
    ELSE
        LET c == contours[i + 1]
            labelIndex == SkipUsed(labelIndex0, existing)
            label == DetectLabel(labelIndex, i)
            id == FreshId(usedIds \cup ShapeIds(out))
            shape == Shape(id, label, "rectangle", c.x, c.y, c.width, c.height, 0,
                           ImageColor(img), imageIndex, TRUE, img)
        IN  RectanglesLoop(i + 1, contours, labelIndex + 1, existing \cup {label},
                           Append(out, shape), imageIndex, img, usedIds)

autoDetectRectangles(contours, imageIndex, existingLabels, img, usedIds) ==
    RectanglesLoop(0, contours, 0, existingLabels, <<>>, imageIndex, img, usedIds)

\* What the computer-vision primitives return for an image: the first n of these
FoundCircle(i) == [x |-> 30 * i, y |-> 20, radius |-> 10]

FoundContour(i) == [area |-> 900, rows |-> 4, x |-> 30 * i, y |-> 20, width |-> 30, height |-> 30]

FoundCircles(n) == [i \in 1..n |-> FoundCircle(i)]

FoundContours(n) == [i \in 1..n |-> FoundContour(i)]

\* ImageViewer.getNextLabel
getNextLabel(ss) ==
    LET usedLabels == ShapeLabels(ss)
        free == {i \in 1..Len(labels) : labels[i] \notin usedLabels}
    IN  IF free # {} THEN labels[CHOOSE i \in free : \A j \in free : i <= j] ELSE "?"

-----------------------------------------------------------------------------
(* AppContext: the shape registry *)

addShape(ss, shape) == Append(ss, shape)

removeShape(ss, id) == SelectSeq(ss, LAMBDA s : s.id # id)

\* (a clear that empties the whole registry)
clearShapesEveryImage(ss, imageIndex) == <<>>

clearShapesForImage(ss, imageIndex) == SelectSeq(ss, LAMBDA s : s.imageIndex # imageIndex)

\* (a removeImage that forgets to renumber the later images' shapes)
removeImageShapesNoRenumber(ss, imageIndex) ==
    SelectSeq(ss, LAMBDA s : s.imageIndex # imageIndex)

\* the setShapes updater of removeImage: filter, then renumber
removeImageShapes(ss, imageIndex) ==
    LET kept == SelectSeq(ss, LAMBDA s : s.imageIndex # imageIndex)
    IN  [i \in 1..Len(kept) |->
            IF kept[i].imageIndex > imageIndex
            THEN [kept[i] EXCEPT !.imageIndex = kept[i].imageIndex - 1]
            ELSE kept[i]]

\* prev.filter((_, i) => i !== imageIndex)
removeImageImages(imgs, imageIndex) ==
    [i \in 1..(Len(imgs) - 1) |-> IF i <= imageIndex THEN imgs[i] ELSE imgs[i + 1]]

\* (a removeImage that steps back only when an earlier image is removed)
removeImageCurrentEarlierOnly(cur, imageIndex) ==
    IF cur > imageIndex /\ cur > 0 THEN cur - 1 ELSE cur

\* if (currentImageIndex >= imageIndex && currentImageIndex > 0) setCurrentImageIndex(currentImageIndex - 1)
removeImageCurrent(cur, imageIndex) ==
    IF cur >= imageIndex /\ cur > 0 THEN cur - 1 ELSE cur

NoPending == [active |-> FALSE]

\* useState(null) of boundingBox: no region of interest
NoBox == [set |-> FALSE]

\* no colour extraction is under way
NoSample == [stage |-> "none"]

\* saveTimeout is null
NoTimeout == 0

\* nothing is stored under STATE_KEY
NoState == [present |-> FALSE]

\* no save ran yet
NoWrite == [call |-> -1]

\* module load of cacheUtils: no timer, nothing cached
NoCache ==
    /\ now = 0
    /\ timers = {}
    /\ saveTimeout = NoTimeout
    /\ localStorage = NoState
    /\ indexedDB = 0
    /\ calls = <<>>
    /\ lastWrite = NoWrite

Op(op, arg, alert) == [op |-> op, arg |-> arg, alert |-> alert]

\* (a readiness test that always answers yes)
isOpenCVReadyAlways(cv) == TRUE

\* typeof window.cv !== 'undefined' && window.cv.Mat !== undefined; cv tells
\* whether the library has finished loading into window.cv
isOpenCVReady(cv) == cv

\* window.cv finishes loading
OpenCVLoaded ==
    /\ ~cvReady
    /\ cvReady' = TRUE
    /\ lastOp' = Op("other", 0, "")
    /\ UNCHANGED <<cacheVars, images, currentImageIndex, shapes, isDetecting, pending, mode,
                   committedPoints, regressionModels, nextImg, boundingBox, sample>>

\* handleFileChange, once every file of the batch has loaded; at most maxImages
\* images are held at a time and maxLoads loaded in all
LoadImagesWithin(k, maxImages, maxLoads) ==
    /\ Len(images) + k <= maxImages
    /\ nextImg + k <= maxLoads
    /\ images' = images \o [i \in 1..k |-> nextImg + i - 1]
    /\ nextImg' = nextImg + k
    /\ lastOp' = Op("other", 0, "")
    /\ UNCHANGED <<cacheVars, currentImageIndex, shapes, cvReady, isDetecting, pending, mode,
                   committedPoints, regressionModels, boundingBox, sample>>

LoadImages(k) == LoadImagesWithin(k, MaxImages, MaxLoads)

handlePrevImage ==
    /\ currentImageIndex > 0
    /\ currentImageIndex' = currentImageIndex - 1
    /\ lastOp' = Op("other", 0, "")
    /\ UNCHANGED <<cacheVars, images, shapes, cvReady, isDetecting, pending, mode,
                   committedPoints, regressionModels, nextImg, boundingBox, sample>>

handleNextImage ==
    /\ currentImageIndex < Len(images) - 1
    /\ currentImageIndex' = currentImageIndex + 1
    /\ lastOp' = Op("other", 0, "")
    /\ UNCHANGED <<cacheVars, images, shapes, cvReady, isDetecting, pending, mode,
                   committedPoints, regressionModels, nextImg, boundingBox, sample>>

\* a click on thumbnail idx
SelectImage(idx) ==
    /\ idx \in 0..(Len(images) - 1)
    /\ idx # currentImageIndex
    /\ currentImageIndex' = idx
    /\ lastOp' = Op("other", 0, "")
    /\ UNCHANGED <<cacheVars, images, shapes, cvReady, isDetecting, pending, mode,
                   committedPoints, regressionModels, nextImg, boundingBox, sample>>

removeImage(imageIndex) ==
    /\ imageIndex \in 0..(Len(images) - 1)
    /\ images' = removeImageImages(images, imageIndex)
    /\ shapes' = removeImageShapes(shapes, imageIndex)
    /\ currentImageIndex' = removeImageCurrent(currentImageIndex, imageIndex)
    /\ lastOp' = Op("removeImage", imageIndex, "")
    /\ UNCHANGED <<cacheVars, cvReady, isDetecting, pending, mode,
                   committedPoints, regressionModels, nextImg, boundingBox, sample>>

\* the Clear button: clearShapesForImage(currentImageIndex)
ClearShapes ==
    /\ Len(images) # 0
    /\ shapes' = clearShapesForImage(shapes, currentImageIndex)
    /\ lastOp' = Op("clearShapes", Len(ShapesOn(shapes, currentImageIndex)), "")
    /\ UNCHANGED <<cacheVars, images, currentImageIndex, cvReady, isDetecting, pending, mode,
                   committedPoints, regressionModels, nextImg, boundingBox, sample>>

\* the delete button of a row of ShapesList (the list shows the current image's shapes)
RemoveShape(id) ==
    /\ \E i \in 1..Len(shapes) : shapes[i].id = id /\ shapes[i].imageIndex = currentImageIndex
    /\ shapes' = removeShape(shapes, id)
    /\ lastOp' = Op("other", 0, "")
    /\ UNCHANGED <<cacheVars, images, currentImageIndex, cvReady, isDetecting, pending, mode,
                   committedPoints, regressionModels, nextImg, boundingBox, sample>>

\* the detection-mode selector of the settings panel
SetMode(m) ==
    /\ m # mode
    /\ mode' = m
    /\ lastOp' = Op("other", 0, "")
    /\ UNCHANGED <<cacheVars, images, currentImageIndex, shapes, cvReady, isDetecting, pending,
                   committedPoints, regressionModels, nextImg, boundingBox, sample>>

-----------------------------------------------------------------------------
(* ImageViewer: manual draw-commit *)

\* The drafts a drag leaves in currentDraftShape, with the drawing mode it was made in
Drafts ==
    { [type |-> "circle", x |-> 10, y |-> 10, width |-> 0, height |-> 0, radius |-> 3],
      [type |-> "circle", x |-> 10, y |-> 10, width |-> 0, height |-> 0, radius |-> 6] }

\* the size checks of handleMouseUp
Undersized(d) ==
    IF d.type = "rectangle"
    THEN Abs(d.width) < minSize \/ Abs(d.height) < minSize
    ELSE d.radius < minSize

\* the newShape handleMouseUp builds (color by extractColorFromShape)
DrawnShape(ss, d, cur, img) ==
    Shape(FreshId(ShapeIds(ss)), getNextLabel(ss), d.type, d.x, d.y, d.width, d.height,
          d.radius, ImageColor(img), cur, FALSE, img)

handleMouseUp(d, cap) ==
    /\ currentImageIndex < Len(images)
    /\ IF Undersized(d)
       THEN /\ lastOp' = Op("other", 0, "")
            /\ UNCHANGED shapes
       ELSE /\ Len(shapes) < cap
            /\ shapes' = addShape(shapes, DrawnShape(shapes, d, currentImageIndex,
                                                     images[currentImageIndex + 1]))
            /\ lastOp' = Op("other", 0, "")
    /\ UNCHANGED <<cacheVars, images, currentImageIndex, cvReady, isDetecting, pending, mode,
                   committedPoints, regressionModels, nextImg, boundingBox, sample>>

-----------------------------------------------------------------------------
(* App: handleAutoDetect *)

\* new Set(shapes.filter(s => s.imageIndex !== currentImageIndex).map(s => s.label))
existingLabels(ss, cur) == ShapeLabels(SelectSeq(ss, LAMBDA s : s.imageIndex # cur))

\* The closure of the setTimeout callback: what the handler saw when it was clicked.
\* The callback reads the closure's shapes only to build existingLabels, so the
\* closure keeps that set in place of the shapes.
Closure(ss, cur, img, m, box) ==
    [active |-> TRUE, existingLabels |-> existingLabels(ss, cur),
     currentImageIndex |-> cur, currentImage |-> img, mode |-> m, boundingBox |-> box]

\* the shapes the detector returns when the primitives find n candidates; the
\* call passes p.boundingBox as a fifth argument, for which autoDetectCircles and
\* autoDetectRectangles have no parameter
Detected(p, n, usedIds) ==
    IF p.mode = "circle"
    THEN autoDetectCircles(FoundCircles(n), p.currentImageIndex, p.existingLabels,
                           p.currentImage, usedIds)
    ELSE autoDetectRectangles(FoundContours(n), p.currentImageIndex, p.existingLabels,
                              p.currentImage, usedIds)

\* The outcome of a detector call: the thrown Error or the returned shapes
Thrown(message) == [threw |-> TRUE, message |-> message]

Returned(newShapes) == [threw |-> FALSE, shapes |-> newShapes]

\* autoDetectCircles / autoDetectRectangles from their first statement:
\* if (!isOpenCVReady()) throw new Error('OpenCV is not loaded')
detect(cv, p, n, usedIds) ==
    IF ~isOpenCVReady(cv)
    THEN Thrown("OpenCV is not loaded")
    ELSE Returned(Detected(p, n, usedIds))

\* (a commit that appends the new shapes to the image's old ones)
commitDetectedAccumulate(prev, newShapes, cur) ==
    IF Len(newShapes) = 0 THEN prev ELSE prev \o newShapes

\* the try block after detection: alert on nothing found, else replace the image's shapes
commitDetected(prev, newShapes, cur) ==
    IF Len(newShapes) = 0 THEN prev
    ELSE SelectSeq(prev, LAMBDA s : s.imageIndex # cur) \o newShapes

\* (a handler that clears the image's shapes before detecting, so that a throw
\* leaves the image empty)
detectionFailedCleared(prev, cur) == SelectSeq(prev, LAMBDA s : s.imageIndex # cur)

\* the catch block: the alert only, the registry is not touched
detectionFailed(prev, cur) == prev

\* (a callback that resets the flag at the end of its try block only)
setIsDetectingAfterTry(threw) == threw

\* the finally block of the callback: setIsDetecting(false), thrown or not
setIsDetectingFinally(threw) == FALSE

\* the click: the guards, setIsDetecting(true), setTimeout(..., 50)
AutoDetectClick ==
    /\ Len(images) # 0
    /\ ~isDetecting
    /\ IF ~isOpenCVReady(cvReady)
       THEN /\ lastOp' = Op("detectClick", 0,
                            "OpenCV.js is still loading. Please wait a moment and try again.")
            /\ UNCHANGED <<cacheVars, isDetecting, pending>>
       ELSE IF ~(currentImageIndex < Len(images))
       THEN /\ lastOp' = Op("other", 0, "")
            /\ UNCHANGED <<cacheVars, isDetecting, pending>>
       ELSE /\ isDetecting' = TRUE
            /\ pending' = Closure(shapes, currentImageIndex, images[currentImageIndex + 1], mode,
                                 boundingBox)
            /\ lastOp' = Op("other", 0, "")
    /\ UNCHANGED <<cacheVars, images, currentImageIndex, shapes, cvReady, mode,
                   committedPoints, regressionModels, nextImg, boundingBox, sample>>

\* the callback, the primitives finding n candidates
AutoDetectFound(n, cap) ==
    /\ pending.active
    /\ LET newShapes == Detected(pending, n, ShapeIds(shapes))
           after == commitDetected(shapes, newShapes, pending.currentImageIndex)
       IN  /\ Len(after) <= cap
           /\ shapes' = after
           /\ lastOp' = Op("detectFound", n,
                           IF Len(newShapes) = 0
                           THEN "No shapes detected. Try adjusting the detection parameters."
                           ELSE "")
    /\ isDetecting' = setIsDetectingFinally(FALSE)
    /\ pending' = NoPending
    /\ UNCHANGED <<cacheVars, images, currentImageIndex, cvReady, mode,
                   committedPoints, regressionModels, nextImg, boundingBox, sample>>

\* the callback, a primitive throwing
AutoDetectThrows ==
    /\ pending.active
    /\ shapes' = detectionFailed(shapes, pending.currentImageIndex)
    /\ lastOp' = Op("detectThrew", 0, "Detection failed")
    /\ isDetecting' = setIsDetectingFinally(TRUE)
    /\ pending' = NoPending
    /\ UNCHANGED <<cacheVars, images, currentImageIndex, cvReady, mode,
                   committedPoints, regressionModels, nextImg, boundingBox, sample>>

\* a whole auto-detect run with nothing in between: the click and its callback,
\* the primitives finding n candidates
AutoDetectRun(n, cap) ==
    /\ Len(images) # 0
    /\ ~isDetecting
    /\ isOpenCVReady(cvReady)
    /\ currentImageIndex < Len(images)
    /\ LET p == Closure(shapes, currentImageIndex, images[currentImageIndex + 1], mode,
                         boundingBox)
           newShapes == Detected(p, n, ShapeIds(shapes))
           after == commitDetected(shapes, newShapes, p.currentImageIndex)
       IN  /\ Len(after) <= cap
           /\ shapes' = after
           /\ lastOp' = Op("detectFound", n,
                           IF Len(newShapes) = 0
                           THEN "No shapes detected. Try adjusting the detection parameters."
                           ELSE "")
    /\ UNCHANGED <<cacheVars, images, currentImageIndex, cvReady, isDetecting, pending, mode,
                   committedPoints, regressionModels, nextImg, boundingBox, sample>>

-----------------------------------------------------------------------------
(* The application: images, registry, drawing, detection *)

Init ==
    /\ images = <<>>
    /\ currentImageIndex = 0
    /\ shapes = <<>>
    /\ cvReady = FALSE
    /\ isDetecting = FALSE
    /\ pending = NoPending
    /\ mode = "circle"
    /\ committedPoints = <<>>
    /\ regressionModels = <<>>
    /\ nextImg = 0
    /\ boundingBox = NoBox
    /\ NoCache
    /\ sample = NoSample
    /\ lastOp = Op("init", 0, "")

Next ==
    \/ OpenCVLoaded
    \/ \E k \in 1..2 : LoadImages(k)
    \/ handlePrevImage
    \/ handleNextImage
    \/ \E idx \in 0..(MaxImages - 1) : SelectImage(idx)
    \/ \E idx \in 0..(MaxImages - 1) : removeImage(idx)
    \/ ClearShapes
    \/ \E id \in 1..(MaxShapes + MaxDetect) : RemoveShape(id)
    \/ \E d \in Drafts : handleMouseUp(d, MaxShapes)
    \/ AutoDetectClick
    \/ \E n \in 0..MaxDetect : AutoDetectFound(n, MaxShapes)
    \/ AutoDetectThrows

Spec == Init /\ [][Next]_vars

-----------------------------------------------------------------------------
(* The registry alone: RegImages images are loaded; shapes are drawn and removed,
   images are visited and removed *)

InitRegistry ==
    /\ images = [i \in 1..RegImages |-> i - 1]
    /\ currentImageIndex = 0
    /\ shapes = <<>>
    /\ cvReady = FALSE
    /\ isDetecting = FALSE
    /\ pending = NoPending
    /\ mode = "circle"
    /\ committedPoints = <<>>
    /\ regressionModels = <<>>
    /\ nextImg = RegImages
    /\ boundingBox = NoBox
    /\ NoCache
    /\ sample = NoSample
    /\ lastOp = Op("init", 0, "")

NextRegistry ==
    \/ handlePrevImage
    \/ handleNextImage
    \/ \E idx \in 0..(RegImages - 1) : SelectImage(idx)
    \/ \E idx \in 0..(RegImages - 1) : removeImage(idx)
    \/ ClearShapes
    \/ \E id \in 1..RegShapes : RemoveShape(id)
    \/ \E d \in Drafts : handleMouseUp(d, RegShapes)

SpecRegistry == InitRegistry /\ [][NextRegistry]_vars

-----------------------------------------------------------------------------
(* Detection on two loaded images: shapes are drawn, detection is requested and
   its deferred callback runs, finding candidates or throwing *)

InitDetect ==
    /\ images = <<0, 1>>
    /\ currentImageIndex = 0
    /\ shapes = <<>>
    /\ cvReady = TRUE
    /\ isDetecting = FALSE
    /\ pending = NoPending
    /\ mode = "circle"
    /\ committedPoints = <<>>
    /\ regressionModels = <<>>
    /\ nextImg = 2
    /\ boundingBox = NoBox
    /\ NoCache
    /\ sample = NoSample
    /\ lastOp = Op("init", 0, "")

NextDetect ==
    \/ handlePrevImage
    \/ handleNextImage
    \/ ClearShapes
    \/ \E id \in 1..(DetShapes + DetDetect) : RemoveShape(id)
    \/ \E d \in Drafts : handleMouseUp(d, DetShapes)
    \/ AutoDetectClick
    \/ \E n \in 0..DetDetect : AutoDetectFound(n, DetShapes)
    \/ AutoDetectThrows

SpecDetect == InitDetect /\ [][NextDetect]_vars

-----------------------------------------------------------------------------
(* Whole detection runs and manual draws on two loaded images, with enough shapes
   to use up the alphabet: each image is detected once, at most SeqManual shapes are
   drawn by hand *)

\* the plates of SpecSeq: the detector finds as many wells as there are letters,
\* or one more
SeqCounts == {Len(labels), Len(labels) + 1}

NextSeq ==
    \/ handlePrevImage
    \/ handleNextImage
    \/ /\ Len(SelectSeq(shapes, LAMBDA s : ~s.auto)) < SeqManual
       /\ \E d \in Drafts : handleMouseUp(d, SeqShapes)
    \/ /\ \A i \in 1..Len(shapes) : shapes[i].imageIndex = currentImageIndex => ~shapes[i].auto
       /\ \E n \in SeqCounts : AutoDetectRun(n, SeqShapes)

SpecSeq == InitDetect /\ [][NextSeq]_vars

-----------------------------------------------------------------------------
(* Claims about the registry and detection *)

\* C1: removeImage(k) deletes exactly the shapes on image k, decrements by 1 the
\* imageIndex of every shape on a later image and leaves the shapes on earlier
\* images unchanged; nothing is added. With shapes on images 0, 1, 2, after
\* removeImage(1) no shape has imageIndex 2.
C1_RemoveImage ==
    [][\A k \in 0..(RegImages - 1) :
        removeImage(k) =>
            /\ \A i \in 1..Len(shapes) :
                IF shapes[i].imageIndex = k
                THEN shapes[i].id \notin ShapeIds(shapes')
                ELSE \E j \in 1..Len(shapes') :
                        shapes'[j] = [shapes[i] EXCEPT !.imageIndex =
                                        IF shapes[i].imageIndex > k
                                        THEN shapes[i].imageIndex - 1
                                        ELSE shapes[i].imageIndex]
            /\ Len(shapes') = Cardinality({i \in 1..Len(shapes) : shapes[i].imageIndex # k})
            /\ (k = 1 /\ \A i \in 1..Len(shapes) : shapes[i].imageIndex <= 2)
                  => \A j \in 1..Len(shapes') : shapes'[j].imageIndex # 2
    ]_vars

\* removeImage(1) has just run and moved a shape from image 2 to image 1, with a
\* shape on image 0 left alone
C1_Witness ==
    /\ lastOp.op = "removeImage" /\ lastOp.arg = 1
    /\ \E i \in 1..Len(shapes) : shapes[i].imageIndex = 1 /\ shapes[i].origin = 2
    /\ \E i \in 1..Len(shapes) : shapes[i].imageIndex = 0

\* C2: no two shapes in the registry carry the same label
C2_LabelsUnique ==
    \A i, j \in 1..Len(shapes) : i # j => shapes[i].label # shapes[j].label

C4_FailedRunRollsBack ==
    [][ /\ AutoDetectThrows => shapes' = shapes
        /\ \A n \in 0..DetDetect :
              AutoDetectFound(n, DetShapes) =>
                  LET ids == ShapeIds(ShapesOn(shapes', pending.currentImageIndex))
                  IN  ids \subseteq ShapeIds(shapes) \/ ids \cap ShapeIds(shapes) = {}
    ]_vars

\* a run has just thrown with shapes in the registry
C4_Witness ==
    /\ lastOp.op = "detectThrew"
    /\ \E i \in 1..Len(shapes) : shapes[i].imageIndex = currentImageIndex

-----------------------------------------------------------------------------
(* Regression studio *)

\* the "no value" a function returns
Null == [null |-> TRUE]

channels == <<"red", "green", "blue", "cyan", "magenta", "yellow", "black", "magnitude">>

QMax3(p, q, r) ==
    LET pq == IF QLt(p, q) THEN q ELSE p
    IN  IF QLt(pq, r) THEN r ELSE pq

rgbToCmyk(rgb) ==
    LET r == QDiv(QInt(rgb[1]), QInt(255))
        g == QDiv(QInt(rgb[2]), QInt(255))
        b == QDiv(QInt(rgb[3]), QInt(255))
        k == QSub(QInt(1), QMax3(r, g, b))
    IN  IF k = QInt(1) THEN <<QInt(0), QInt(0), QInt(0), QInt(1)>>
        ELSE LET w == QSub(QInt(1), k)
             IN  <<QDiv(QSub(QSub(QInt(1), r), k), w),
                   QDiv(QSub(QSub(QInt(1), g), k), w),
                   QDiv(QSub(QSub(QInt(1), b), k), w),
                   k>>

getColorValue(color, channel) ==
    LET cmyk == rgbToCmyk(color)
    IN  CASE channel = "red" -> QInt(color[1])
          [] channel = "green" -> QInt(color[2])
          [] channel = "blue" -> QInt(color[3])
          [] channel = "cyan" -> QMul(cmyk[1], QInt(100))
          [] channel = "magenta" -> QMul(cmyk[2], QInt(100))
          [] channel = "yellow" -> QMul(cmyk[3], QInt(100))
          [] channel = "black" -> QMul(cmyk[4], QInt(100))
          [] channel = "magnitude" ->
                QInt(Sqrt(color[1] * color[1] + color[2] * color[2] + color[3] * color[3]))
          [] OTHER -> QInt(0)

\* shapes.find(s => s.label === label)
FindShape(ss, label) ==
    LET hits == {i \in 1..Len(ss) : ss[i].label = label}
    IN  IF hits = {} THEN Undefined
        ELSE ss[CHOOSE i \in hits : \A j \in hits : i <= j]

joinPointsKeepOrphans(cps, ss) ==
    [i \in 1..Len(cps) |->
        LET shape == FindShape(ss, cps[i].label)
        IN  [concentration |-> cps[i].y,
             color |-> IF shape = Undefined THEN <<0, 0, 0>> ELSE shape.color,
             label |-> cps[i].label]]

\* the join of runRegression: committedPoints.map(...).filter(Boolean)
joinPoints(cps, ss) ==
    LET mapped == [i \in 1..Len(cps) |->
                      LET shape == FindShape(ss, cps[i].label)
                      IN  IF shape = Undefined THEN Null
                          ELSE [concentration |-> cps[i].y, color |-> shape.color,
                                label |-> cps[i].label]]
    IN  SelectSeq(mapped, LAMBDA pt : pt # Null)

RECURSIVE QSum(_)
QSum(s) == IF s = <<>> THEN QInt(0) ELSE QAdd(s[1], QSum(Tail(s)))

FitChannelInterceptNotAveraged(xs, ys) ==
    LET n == Len(xs)
        sumX == QSum(xs)
        sumY == QSum(ys)
        sumXY == QSum([i \in 1..n |-> QMul(xs[i], ys[i])])
        sumXX == QSum([i \in 1..n |-> QMul(xs[i], xs[i])])
        denominator == QSub(QMul(QInt(n), sumXX), QMul(sumX, sumX))
    IN  IF BelowEpsilon(denominator) THEN Undefined
        ELSE LET m == QDiv(QSub(QMul(QInt(n), sumXY), QMul(sumX, sumY)), denominator)
             IN  [m |-> m, b |-> QSub(sumY, QMul(m, sumX)), r2 |-> QInt(1)]

\* one pass of channels.forEach over the points' concentrations xs and channel
\* values ys: the model of the channel, or Undefined when the channel is skipped
FitChannel(xs, ys) ==
    LET n == Len(xs)
        sumX == QSum(xs)
        sumY == QSum(ys)
        sumXY == QSum([i \in 1..n |-> QMul(xs[i], ys[i])])
        sumXX == QSum([i \in 1..n |-> QMul(xs[i], xs[i])])
        denominator == QSub(QMul(QInt(n), sumXX), QMul(sumX, sumX))
    IN  IF BelowEpsilon(denominator) THEN Undefined
        ELSE LET m == QDiv(QSub(QMul(QInt(n), sumXY), QMul(sumX, sumY)), denominator)
                 b == QDiv(QSub(sumY, QMul(m, sumX)), QInt(n))
                 meanY == QDiv(sumY, QInt(n))
                 ssTot == QSum([i \in 1..n |->
                              LET d == QSub(ys[i], meanY) IN QMul(d, d)])
                 ssRes == QSum([i \in 1..n |->
                              LET d == QSub(ys[i], QAdd(QMul(m, xs[i]), b)) IN QMul(d, d)])
                 r2 == IF QLt(QInt(0), ssTot) THEN QSub(QInt(1), QDiv(ssRes, ssTot))
                       ELSE QInt(0)
             IN  [m |-> m, b |-> b, r2 |-> r2]

Concentrations(points) == [i \in 1..Len(points) |-> points[i].concentration]

ChannelValues(points, channel) ==
    [i \in 1..Len(points) |-> getColorValue(points[i].color, channel)]

\* newModels once channels.forEach has run
newModels(points) ==
    LET fits == [i \in 1..Len(channels) |->
                    FitChannel(Concentrations(points), ChannelValues(points, channels[i]))]
        fitted == {i \in 1..Len(channels) : fits[i] # Undefined}
    IN  [ch \in {channels[i] : i \in fitted} |->
            fits[CHOOSE i \in fitted : channels[i] = ch]]

storeModelsMerged(prevModels, fittedModels) ==
    [ch \in DOMAIN prevModels \cup DOMAIN fittedModels |->
        IF ch \in DOMAIN fittedModels THEN fittedModels[ch] ELSE prevModels[ch]]

\* setRegressionModels(newModels)
storeModels(prevModels, fittedModels) == fittedModels

insufficientDataCleared(prevModels) == <<>>

\* the early return of runRegression: nothing is stored
insufficientData(prevModels) == prevModels

predictProduct(models, colorValue, channel) ==
    IF channel \notin DOMAIN models THEN Null
    ELSE IF BelowEpsilon(models[channel].m) THEN Null
    ELSE QMul(QSub(colorValue, models[channel].b), models[channel].m)

predict(models, colorValue, channel) ==
    IF channel \notin DOMAIN models THEN Null
    ELSE IF BelowEpsilon(models[channel].m) THEN Null
    ELSE QDiv(QSub(colorValue, models[channel].b), models[channel].m)

\* Bounds of the regression specification
MaxConc == 3

\* the concentrations typed are k * 10^-s, k in 1..MaxConc, s one of the scales
Scales == {0, 6}

\* labels a concentration can be committed for; "z" labels no shape
RegLabels == <<"a", "b", "c", "z">>

Sample(id, label, color) ==
    Shape(id, label, "circle", 10, 10, 0, 0, 6, color, 0, FALSE, 0)

\* the registries the studio is opened on
Registries ==
    << << Sample(1, "a", Palette[1]), Sample(2, "b", Palette[2]), Sample(3, "c", Palette[3]) >>,
       << Sample(1, "a", Palette[2]), Sample(2, "b", Palette[2]), Sample(3, "c", Palette[2]) >>,
       << Sample(1, "a", Palette[1]), Sample(2, "b", Palette[3]), Sample(3, "c", Palette[2]) >>,
       << Sample(1, "a", Palette[5]), Sample(2, "b", Palette[4]), Sample(3, "c", Palette[1]) >>,
       << Sample(1, "a", Palette[1]), Sample(2, "a", Palette[3]), Sample(3, "b", Palette[2]) >> >>

\* the lists of committed points, one entry per label at most; the points of the
\* last two labels, when there are such, carry the largest concentration
PointLists(scale) ==
    { LET all == [i \in 1..Len(RegLabels) |->
                    [label |-> RegLabels[i], y |-> QNorm(f[i], 1, scale)]]
      IN  SelectSeq(all, LAMBDA pt : pt.y[1] # 0)
      : f \in {g \in [1..Len(RegLabels) -> 0..MaxConc] :
                  \A i \in {Len(RegLabels) - 1, Len(RegLabels)} : g[i] \in {0, MaxConc}} }

\* the files offered to importModel: whether JSON.parse succeeds, and the keys of
\* the parsed object
ImportFiles ==
    << [parses |-> FALSE, data |-> <<>>],
       [parses |-> TRUE,
        data |-> [committedPoints |-> << [label |-> "a", y |-> QInt(1)],
                                         [label |-> "z", y |-> QInt(2)] >>,
                  regressionModels |->
                      ("red" :> [m |-> QInt(0), b |-> QInt(5), r2 |-> QInt(0)]
                       @@ "legacy" :> [m |-> QInt(2), b |-> QInt(1), r2 |-> QInt(1)])]],
       [parses |-> TRUE,
        data |-> [regressionModels |->
                      ("magnitude" :> [m |-> QInt(51), b |-> QInt(0), r2 |-> QInt(1)])]],
       [parses |-> TRUE, data |-> [committedPoints |-> <<>>]],
       [parses |-> TRUE, data |-> <<>>] >>

\* the Run Regression button: rendered when there are shapes, enabled with two
\* committed points
runRegression ==
    /\ Len(shapes) # 0
    /\ Len(committedPoints) >= 2
    /\ LET points == joinPoints(committedPoints, shapes)
           stored == Cardinality(DOMAIN regressionModels)
       IN  IF Len(points) < 2
           THEN /\ lastOp' = Op("runRegression", stored,
                                "Need at least 2 data points with known concentrations")
                /\ regressionModels' = insufficientData(regressionModels)
           ELSE /\ lastOp' = Op("runRegression", stored, "")
                /\ regressionModels' = storeModels(regressionModels, newModels(points))
    /\ UNCHANGED <<cacheVars, images, currentImageIndex, shapes, cvReady, isDetecting, pending, mode,
                   committedPoints, nextImg, boundingBox, sample>>

\* (a failed import that resets the state)
importFailedReset(prev) == <<>>

\* the catch block of importModel: the alert only, neither state is set
importFailed(prev) == prev

\* reader.onload of importModel for the f-th file
importModel(f) ==
    LET file == ImportFiles[f]
    IN  /\ Len(shapes) # 0
        /\ IF ~file.parses
           THEN /\ lastOp' = Op("importModel", 0, "Failed to import model: Invalid file format")
                /\ committedPoints' = importFailed(committedPoints)
                /\ regressionModels' = importFailed(regressionModels)
           ELSE /\ committedPoints' = IF "committedPoints" \in DOMAIN file.data
                                      THEN file.data.committedPoints
                                      ELSE committedPoints
                /\ regressionModels' = IF "regressionModels" \in DOMAIN file.data
                                       THEN file.data.regressionModels
                                       ELSE regressionModels
                /\ lastOp' = Op("importModel", 0, "Imported model")
        /\ UNCHANGED <<cacheVars, images, currentImageIndex, shapes, cvReady, isDetecting, pending, mode,
                       nextImg, boundingBox, sample>>

InitRegression ==
    /\ images = <<0>>
    /\ currentImageIndex = 0
    /\ shapes \in {Registries[i] : i \in 1..Len(Registries)}
    /\ cvReady = TRUE
    /\ isDetecting = FALSE
    /\ pending = NoPending
    /\ mode = "circle"
    /\ committedPoints \in UNION {PointLists(s) : s \in Scales}
    /\ regressionModels = <<>>
    /\ nextImg = 1
    /\ boundingBox = NoBox
    /\ NoCache
    /\ sample = NoSample
    /\ lastOp = Op("init", 0, "")

NextRegression ==
    \/ runRegression
    \/ \E f \in 1..Len(ImportFiles) : importModel(f)

SpecRegression == InitRegression /\ [][NextRegression]_vars

-----------------------------------------------------------------------------
(* Claims about the regression studio *)

\* the committed points whose label some shape carries, in list order
MatchingPoints == SelectSeq(committedPoints, LAMBDA pt : pt.label \in ShapeLabels(shapes))

\* the matching points with the colour of the shape they name
MatchingJoin ==
    [i \in 1..Len(MatchingPoints) |->
        [concentration |-> MatchingPoints[i].y,
         color |-> FindShape(shapes, MatchingPoints[i].label).color,
         label |-> MatchingPoints[i].label]]

\* n * Sum(x^2) - (Sum x)^2 of the concentrations xs
NormalDenominator(xs) ==
    QSub(QMul(QInt(Len(xs)), QSum([i \in 1..Len(xs) |-> QMul(xs[i], xs[i])])),
         QMul(QSum(xs), QSum(xs)))

\* C5: in runRegression a committed point whose label matches no shape is left
\* out of the join and does not make the run fail: when at least 2 committed
\* points match shapes, no error is raised and the stored models are the fit of
\* exactly the matching points.
C5_OrphanExcluded ==
    [][(runRegression /\ Len(MatchingPoints) >= 2)
          => /\ lastOp'.alert = ""
             /\ regressionModels' = newModels(MatchingJoin)]_vars

\* a run that succeeded and stored models although a committed point names no shape
C5_Witness ==
    /\ lastOp.op = "runRegression"
    /\ lastOp.alert = ""
    /\ \E i \in 1..Len(committedPoints) : committedPoints[i].label \notin ShapeLabels(shapes)
    /\ Len(MatchingPoints) >= 2
    /\ regressionModels # <<>>

\* C6: when fewer than 2 committed points join to a shape, runRegression raises
\* an error and the stored regressionModels map is left as it was; no partial
\* model is stored.
C6_InsufficientData ==
    [][(runRegression /\ Len(MatchingPoints) < 2)
          => /\ lastOp'.alert = "Need at least 2 data points with known concentrations"
             /\ regressionModels' = regressionModels]_vars

\* a refused run that left a non-empty stored map in place
C6_Witness ==
    /\ lastOp.op = "runRegression"
    /\ lastOp.alert # ""
    /\ Len(MatchingPoints) < 2
    /\ regressionModels # <<>>

LineThrough(xs, ys) ==
    LET pairs == {p \in (1..Len(xs)) \X (1..Len(xs)) : xs[p[1]] # xs[p[2]]}
        p == CHOOSE q \in pairs : TRUE
        m == QDiv(QSub(ys[p[2]], ys[p[1]]), QSub(xs[p[2]], xs[p[1]]))
    IN  [m |-> m, b |-> QSub(ys[p[1]], QMul(m, xs[p[1]]))]

\* the points (xs[i], ys[i]) have two different concentrations and lie on one
\* line of slope other than 0
OnSlopedLine(xs, ys) ==
    /\ \E i, j \in 1..Len(xs) : xs[i] # xs[j]
    /\ LET l == LineThrough(xs, ys)
       IN  /\ l.m # QInt(0)
           /\ \A i \in 1..Len(xs) : ys[i] = QAdd(QMul(l.m, xs[i]), l.b)

\* the model a channel on a line must get: slope, intercept, r2 = 1
ExactModel(xs, ys) ==
    [m |-> LineThrough(xs, ys).m, b |-> LineThrough(xs, ys).b, r2 |-> QInt(1)]

\* the fit of (1,10), (2,20), (3,30) is m = 10, b = 0, r2 = 1
ExampleFit ==
    FitChannel(<<QInt(1), QInt(2), QInt(3)>>, <<QInt(10), QInt(20), QInt(30)>>)
        = [m |-> QInt(10), b |-> QInt(0), r2 |-> QInt(1)]

PredictInputs == {QInt(0), QInt(1), QInt(-2), <<5, 1, 1>>, <<1, 3, 0>>}

\* C9: for a channel with a stored model of |m| >= 1e-10, predict returns the x
\* with m*x + b = value, so predict(m*x + b) = x for every x; for a channel
\* without a model or with |m| < 1e-10 it returns null.
C9_PredictInverse ==
    \A ch \in {channels[i] : i \in 1..Len(channels)} \cup {"legacy"} :
        IF ch \in DOMAIN regressionModels /\ ~BelowEpsilon(regressionModels[ch].m)
        THEN \A x \in PredictInputs :
                predict(regressionModels,
                        QAdd(QMul(regressionModels[ch].m, x), regressionModels[ch].b), ch) = x
        ELSE \A v \in PredictInputs : predict(regressionModels, v, ch) = Null

\* a fitted map with a sloped channel and a flat channel (m = 0), and no model
\* under the key "legacy"
C9_Witness ==
    /\ lastOp.op = "runRegression"
    /\ \E ch \in DOMAIN regressionModels :
          /\ ~BelowEpsilon(regressionModels[ch].m)
          /\ regressionModels[ch].m # QInt(1)
    /\ \E ch \in DOMAIN regressionModels : regressionModels[ch].m = QInt(0)

-----------------------------------------------------------------------------
(* Concentration edits *)

\* the number parseFloat returns for a text without a numeric prefix
NaN == [nan |-> TRUE]

Digits == <<"0", "1", "2", "3", "4", "5", "6", "7", "8", "9">>

IsDigit(c) == \E i \in 1..Len(Digits) : Digits[i] = c

DigitValue(c) == (CHOOSE i \in 1..Len(Digits) : Digits[i] = c) - 1

RECURSIVE SkipSpaces(_)
SkipSpaces(s) == IF s # <<>> /\ Head(s) = " " THEN SkipSpaces(Tail(s)) ELSE s

RECURSIVE LeadingDigits(_)
LeadingDigits(s) ==
    IF s # <<>> /\ IsDigit(Head(s)) THEN 1 + LeadingDigits(Tail(s)) ELSE 0

RECURSIVE DecimalValue(_)
DecimalValue(s) ==
    IF s = <<>> THEN 0
    ELSE 10 * DecimalValue(SubSeq(s, 1, Len(s) - 1)) + DigitValue(s[Len(s)])

\* parseFloat of a text given as its characters (texts without exponent part):
\* leading blanks are skipped, then the longest prefix sign, digits, point, digits
\* is read; NaN when the prefix has no digit
parseFloat(value) ==
    LET s == SkipSpaces(value)
        signed == s # <<>> /\ Head(s) \in {"-", "+"}
        u == IF signed THEN Tail(s) ELSE s
        ni == LeadingDigits(u)
        rest == SubSeq(u, ni + 1, Len(u))
        nf == IF rest # <<>> /\ Head(rest) = "." THEN LeadingDigits(Tail(rest)) ELSE 0
        mantissa == DecimalValue(SubSeq(u, 1, ni) \o SubSeq(rest, 2, nf + 1))
    IN  IF ni + nf = 0 THEN NaN
        ELSE QNorm(IF signed /\ Head(s) = "-" THEN -mantissa ELSE mantissa, 1, nf)

\* the texts typed into a concentration field
ConcValues ==
    { <<>>, <<"1">>, <<"2">>, <<"2", ".", "5">>, <<".", "5">>, <<"-", "1">>,
      <<" ", "2">>, <<"1", "x">>, <<"x">>, <<"-">> }

\* prev.filter(p => p.label !== label)
removePoint(prev, label) == SelectSeq(prev, LAMBDA pt : pt.label # label)

upsertPointAppend(prev, label, num) == Append(prev, [label |-> label, y |-> num])

\* the updater of setCommittedPoints for a number
upsertPoint(prev, label, num) ==
    IF \E i \in 1..Len(prev) : prev[i].label = label
    THEN [i \in 1..Len(prev) |->
             IF prev[i].label = label THEN [label |-> prev[i].label, y |-> num] ELSE prev[i]]
    ELSE Append(prev, [label |-> label, y |-> num])

\* the branch of handleConcentrationChange taken (history, kept in lastOp.arg)
Removed == 1
Ignored == 2
Overwritten == 3
Appended == 4

\* onChange of the concentration field of a row labelled `label`
handleConcentrationChange(label, value) ==
    /\ label \in ShapeLabels(shapes)
    /\ IF value = <<>>
       THEN /\ lastOp' = Op("handleConcentrationChange", Removed, "")
            /\ committedPoints' = removePoint(committedPoints, label)
       ELSE LET num == parseFloat(value)
            IN  IF num = NaN
                THEN /\ lastOp' = Op("handleConcentrationChange", Ignored, "")
                     /\ UNCHANGED committedPoints
                ELSE /\ lastOp' = Op("handleConcentrationChange",
                                     IF \E i \in 1..Len(committedPoints) :
                                            committedPoints[i].label = label
                                     THEN Overwritten ELSE Appended, "")
                     /\ committedPoints' = upsertPoint(committedPoints, label, num)
    /\ UNCHANGED <<cacheVars, images, currentImageIndex, shapes, cvReady, isDetecting, pending, mode,
                   regressionModels, nextImg, boundingBox, sample>>

InitPoints ==
    /\ images = <<0>>
    /\ currentImageIndex = 0
    /\ shapes \in {Registries[1], Registries[Len(Registries)]}
    /\ cvReady = TRUE
    /\ isDetecting = FALSE
    /\ pending = NoPending
    /\ mode = "circle"
    /\ committedPoints = <<>>
    /\ regressionModels = <<>>
    /\ nextImg = 1
    /\ boundingBox = NoBox
    /\ NoCache
    /\ sample = NoSample
    /\ lastOp = Op("init", 0, "")

NextPoints ==
    \E label \in ShapeLabels(shapes) : \E value \in ConcValues :
        handleConcentrationChange(label, value)

SpecPoints == InitPoints /\ [][NextPoints]_vars

\* C10: after any sequence of concentration edits committedPoints holds at most
\* one entry per label; an edit with a numeric value for a label that has a point
\* overwrites that point's value in place, an edit with the empty value removes
\* the label's point, and an edit with a non-numeric value (parseFloat gives NaN)
\* leaves the list unchanged.
C10_OnePointPerLabel ==
    /\ [](\A i, j \in 1..Len(committedPoints) :
             committedPoints[i].label = committedPoints[j].label => i = j)
    /\ [][\A l \in ShapeLabels(shapes) : \A value \in ConcValues :
             handleConcentrationChange(l, value)
                => LET had == \E i \in 1..Len(committedPoints) : committedPoints[i].label = l
                       num == parseFloat(value)
                   IN  /\ value = <<>>
                          => committedPoints' =
                                SelectSeq(committedPoints, LAMBDA pt : pt.label # l)
                       /\ (value # <<>> /\ num = NaN) => committedPoints' = committedPoints
                       /\ (value # <<>> /\ num # NaN /\ had)
                          => /\ Len(committedPoints') = Len(committedPoints)
                             /\ \A i \in 1..Len(committedPoints) :
                                   committedPoints'[i] =
                                      IF committedPoints[i].label = l
                                      THEN [label |-> l, y |-> num]
                                      ELSE committedPoints[i]]_vars

\* an edit that overwrote the value of one of several committed points
C10_Witness ==
    /\ lastOp.op = "handleConcentrationChange"
    /\ lastOp.arg = Overwritten
    /\ Len(committedPoints) >= 2

-----------------------------------------------------------------------------
(* Region of interest *)

\* Bounds of the region-of-interest specification
RoiShapes == 2
RoiDetect == 2

\* the drafts dragged in crop mode: x, y of the press, signed width and height
CropDrafts ==
    { [x |-> 0, y |-> 0, width |-> 40, height |-> 40],
      [x |-> 45, y |-> 45, width |-> -45, height |-> -45],
      [x |-> 0, y |-> 0, width |-> 3, height |-> 40] }

\* handleMouseUp with drawingMode 'crop': a draft under minSize is dropped, any
\* other is normalised and becomes the bounding box
handleMouseUpCrop(d) ==
    /\ currentImageIndex < Len(images)
    /\ IF Abs(d.width) < minSize \/ Abs(d.height) < minSize
       THEN UNCHANGED boundingBox
       ELSE boundingBox' = [x |-> IF d.width < 0 THEN d.x + d.width ELSE d.x,
                            y |-> IF d.height < 0 THEN d.y + d.height ELSE d.y,
                            width |-> Abs(d.width), height |-> Abs(d.height)]
    /\ lastOp' = Op("crop", 0, "")
    /\ UNCHANGED <<cacheVars, images, currentImageIndex, shapes, cvReady, isDetecting, pending, mode,
                   committedPoints, regressionModels, nextImg, sample>>

\* the Clear ROI button, shown while a bounding box is set
ClearBoundingBox ==
    /\ boundingBox # NoBox
    /\ boundingBox' = NoBox
    /\ lastOp' = Op("other", 0, "")
    /\ UNCHANGED <<cacheVars, images, currentImageIndex, shapes, cvReady, isDetecting, pending, mode,
                   committedPoints, regressionModels, nextImg, sample>>

NextRoi ==
    \/ handlePrevImage
    \/ handleNextImage
    \/ ClearShapes
    \/ \E d \in CropDrafts : handleMouseUpCrop(d)
    \/ ClearBoundingBox
    \/ AutoDetectClick
    \/ \E n \in 0..RoiDetect : AutoDetectFound(n, RoiShapes)
    \/ AutoDetectThrows

SpecRoi == InitDetect /\ [][NextRoi]_vars

\* the point (x, y) lies within the box
InsideBox(x, y, box) ==
    /\ box.x <= x /\ x <= box.x + box.width
    /\ box.y <= y /\ y <= box.y + box.height

\* C11: when a region of interest is set, every shape an auto-detect run adds to
\* the registry has its centre inside the region's bounds.
C11_DetectedInsideRoi ==
    [][\A n \in 0..RoiDetect :
         (AutoDetectFound(n, RoiShapes) /\ pending.boundingBox # NoBox)
            => \A i \in 1..Len(shapes') :
                  shapes'[i].id \notin ShapeIds(shapes)
                     => InsideBox(shapes'[i].x, shapes'[i].y, pending.boundingBox)]_vars

-----------------------------------------------------------------------------
(* Geometry of the stored shapes *)

\* Bounds of the drawing specification
DrawShapes == 2
DrawDetect == 1

\* drafts of drags in the four directions, of drags too short, and of circles
DrawDrafts ==
    Drafts \cup
    { [type |-> "rectangle", x |-> 10, y |-> 10, width |-> 20, height |-> 10, radius |-> 0],
      [type |-> "rectangle", x |-> 30, y |-> 20, width |-> -20, height |-> -10, radius |-> 0],
      [type |-> "rectangle", x |-> 10, y |-> 20, width |-> 20, height |-> -10, radius |-> 0],
      [type |-> "rectangle", x |-> 10, y |-> 10, width |-> 3, height |-> 20, radius |-> 0] }

NextDraw ==
    \/ handleNextImage
    \/ handlePrevImage
    \/ ClearShapes
    \/ \E m \in {"circle", "rectangle"} : SetMode(m)
    \/ \E d \in DrawDrafts : handleMouseUp(d, DrawShapes)
    \/ \E n \in 0..DrawDetect : AutoDetectRun(n, DrawShapes)

SpecDraw == InitDetect /\ [][NextDraw]_vars

\* C12: in every reachable state every stored rectangle has width > 0 and
\* height > 0 and every stored circle has radius > 0, whether detected or drawn
\* by hand in any drag direction.
C12_GeometryPositive ==
    \A i \in 1..Len(shapes) :
        IF shapes[i].type = "rectangle"
        THEN shapes[i].width > 0 /\ shapes[i].height > 0
        ELSE shapes[i].radius > 0

-----------------------------------------------------------------------------
(* Claims about clearing and renaming *)

\* C13: clearShapesForImage(i) removes exactly the shapes whose imageIndex is i
\* and leaves every shape of every other image as it was (same id, label,
\* geometry, colour and imageIndex); nothing is added.
C13_ClearOneImage ==
    [][ClearShapes =>
          /\ \A i \in 1..Len(shapes) :
                IF shapes[i].imageIndex = currentImageIndex
                THEN shapes[i].id \notin ShapeIds(shapes')
                ELSE \E j \in 1..Len(shapes') : shapes'[j] = shapes[i]
          /\ Len(shapes') =
                Cardinality({i \in 1..Len(shapes) : shapes[i].imageIndex # currentImageIndex})
          /\ \A j \in 1..Len(shapes') : \E i \in 1..Len(shapes) : shapes[i] = shapes'[j]
    ]_vars

\* a clear on image 1 has just removed its one shape while the shapes of images
\* 0 and 2 stay
C13_Witness ==
    /\ lastOp.op = "clearShapes" /\ lastOp.arg = 1
    /\ currentImageIndex = 1
    /\ \E i \in 1..Len(shapes) : shapes[i].imageIndex = 0
    /\ \E i \in 1..Len(shapes) : shapes[i].imageIndex = 2

\* Bound of the renaming specification
RenShapes == 2

\* the labels typed into the label field of a row
RenLabels == {"a", "b", "q"}

\* (an update that refuses a label some other shape carries)
updateShapeUnlessTaken(ss, id, updates) ==
    IF "label" \in DOMAIN updates
       /\ \E i \in 1..Len(ss) : ss[i].id # id /\ ss[i].label = updates.label
    THEN ss
    ELSE [i \in 1..Len(ss) |->
             IF ss[i].id = id
             THEN [f \in DOMAIN ss[i] |-> IF f \in DOMAIN updates THEN updates[f] ELSE ss[i][f]]
             ELSE ss[i]]

\* setShapes(prev => prev.map(s => s.id === id ? { ...s, ...updates } : s))
updateShape(ss, id, updates) ==
    [i \in 1..Len(ss) |->
        IF ss[i].id = id
        THEN [f \in DOMAIN ss[i] |-> IF f \in DOMAIN updates THEN updates[f] ELSE ss[i][f]]
        ELSE ss[i]]

\* onChange of the label field of a row of ShapesList (the rows are the current
\* image's shapes)
RenameShape(id, label) ==
    /\ \E i \in 1..Len(shapes) : shapes[i].id = id /\ shapes[i].imageIndex = currentImageIndex
    /\ shapes' = updateShape(shapes, id, [label |-> label])
    /\ lastOp' = Op("updateShape", id, "")
    /\ UNCHANGED <<cacheVars, images, currentImageIndex, cvReady, isDetecting, pending, mode,
                   committedPoints, regressionModels, nextImg, boundingBox, sample>>

NextRename ==
    \/ handlePrevImage
    \/ handleNextImage
    \/ \E d \in Drafts : handleMouseUp(d, RenShapes)
    \/ \E id \in 1..RenShapes : RemoveShape(id)
    \/ \E id \in 1..RenShapes : \E label \in RenLabels : RenameShape(id, label)

SpecRename == InitDetect /\ [][NextRename]_vars

\* C14: updateShape(id, {label: L}) sets the label of exactly the shape with that
\* id to L and changes nothing else of it and no other shape, also when another
\* shape already carries L: the rename is neither refused nor deduplicated.
C14_RenameLastWriteWins ==
    [][\A id \in 1..RenShapes : \A label \in RenLabels :
          RenameShape(id, label)
             => /\ Len(shapes') = Len(shapes)
                /\ \A i \in 1..Len(shapes) :
                      shapes'[i] = IF shapes[i].id = id
                                   THEN [shapes[i] EXCEPT !.label = label]
                                   ELSE shapes[i]
    ]_vars

\* a rename has just given shape 2 the label shape 1 carries
C14_Witness ==
    /\ lastOp.op = "updateShape" /\ lastOp.arg = 2
    /\ Len(shapes) = 2
    /\ shapes[1].id = 1 /\ shapes[2].id = 2
    /\ shapes[1].label = shapes[2].label

-----------------------------------------------------------------------------
(* The two labelling paths *)

\* C15: given the same set of used labels (those of the registry), getNextLabel
\* and the label a detector gives its first candidate are the same label, and
\* that label is not in use: the first unused letter of a..z, and after z a
\* placeholder that no shape carries.
C15_SameNextLabel ==
    LET used == ShapeLabels(shapes)
        img == images[currentImageIndex + 1]
        drawn == getNextLabel(shapes)
        circle == autoDetectCircles(FoundCircles(1), currentImageIndex, used, img,
                                    ShapeIds(shapes))[1].label
        rectangle == autoDetectRectangles(FoundContours(1), currentImageIndex, used, img,
                                          ShapeIds(shapes))[1].label
    IN  /\ drawn = circle
        /\ drawn = rectangle
        /\ drawn \notin used

-----------------------------------------------------------------------------
(* Detection before the library has loaded *)

\* Bounds of the loading specification
LoadShapes == 2

LoadDetect == 1

\* two images are open, window.cv has not finished loading
InitLoading ==
    /\ images = <<0, 1>>
    /\ currentImageIndex = 0
    /\ shapes = <<>>
    /\ cvReady = FALSE
    /\ isDetecting = FALSE
    /\ pending = NoPending
    /\ mode = "circle"
    /\ committedPoints = <<>>
    /\ regressionModels = <<>>
    /\ nextImg = 2
    /\ boundingBox = NoBox
    /\ NoCache
    /\ sample = NoSample
    /\ lastOp = Op("init", 0, "")

NextLoading ==
    \/ OpenCVLoaded
    \/ handlePrevImage
    \/ handleNextImage
    \/ \E m \in {"circle", "rectangle"} : SetMode(m)
    \/ \E d \in Drafts : handleMouseUp(d, LoadShapes)
    \/ AutoDetectClick
    \/ \E n \in 0..LoadDetect : AutoDetectFound(n, LoadShapes)
    \/ AutoDetectThrows

SpecLoading == InitLoading /\ [][NextLoading]_vars

\* C16: while OpenCV is not ready, a detector call throws whatever the image
\* holds (it never returns an empty list), and a click on auto-detect alerts
\* and leaves the registry, the isDetecting flag and the pending callback as
\* they were.
C16_NotReadyFails ==
    /\ [](~cvReady =>
            \A m \in {"circle", "rectangle"} : \A n \in 0..LoadDetect :
                \A cur \in 0..(Len(images) - 1) :
                    detect(cvReady, Closure(shapes, cur, images[cur + 1], m, boundingBox),
                           n, ShapeIds(shapes)).threw)
    /\ [][(AutoDetectClick /\ ~cvReady)
            => /\ shapes' = shapes
               /\ isDetecting' = isDetecting
               /\ pending' = pending
               /\ lastOp'.alert # ""]_vars

\* auto-detect has just been clicked on an image with a shape, the library not loaded
C16_Witness ==
    /\ ~cvReady
    /\ lastOp.op = "detectClick" /\ lastOp.alert # ""
    /\ Len(images) # 0
    /\ Len(shapes) # 0
    /\ ~isDetecting

-----------------------------------------------------------------------------
(* Importing a model file *)

\* the studio with the first plate and any list of committed points
InitImport ==
    /\ images = <<0>>
    /\ currentImageIndex = 0
    /\ shapes = Registries[1]
    /\ cvReady = TRUE
    /\ isDetecting = FALSE
    /\ pending = NoPending
    /\ mode = "circle"
    /\ committedPoints \in PointLists(0)
    /\ regressionModels = <<>>
    /\ nextImg = 1
    /\ boundingBox = NoBox
    /\ NoCache
    /\ sample = NoSample
    /\ lastOp = Op("init", 0, "")

SpecImport == InitImport /\ [][NextRegression]_vars

\* C17: an import whose file does not parse as JSON alerts the user and leaves
\* committedPoints and regressionModels exactly as they were.
C17_UnparseableImport ==
    [][\A f \in 1..Len(ImportFiles) :
          (importModel(f) /\ ~ImportFiles[f].parses)
             => /\ committedPoints' = committedPoints
                /\ regressionModels' = regressionModels
                /\ lastOp'.alert = "Failed to import model: Invalid file format"]_vars

\* an unparseable file has just been refused with points committed and models fitted
C17_Witness ==
    /\ lastOp.op = "importModel"
    /\ lastOp.alert = "Failed to import model: Invalid file format"
    /\ Len(committedPoints) >= 2
    /\ DOMAIN regressionModels # {}

\* C18: after an import of a parseable file without a committedPoints key the
\* list of committed points is empty, and after one without a regressionModels
\* key the map of models is empty.
C18_MissingKeyIsEmpty ==
    [][\A f \in 1..Len(ImportFiles) :
          (importModel(f) /\ ImportFiles[f].parses)
             => /\ "committedPoints" \notin DOMAIN ImportFiles[f].data
                      => committedPoints' = <<>>
                /\ "regressionModels" \notin DOMAIN ImportFiles[f].data
                      => DOMAIN regressionModels' = {}]_vars

-----------------------------------------------------------------------------
(* The arithmetic of the colour sampling: JavaScript numbers, IEEE-754 doubles.
   A non-negative double is <<m, e>>: m the bits of its mantissa, lowest bit
   first, without leading zeros and at most Precision of them, and e the
   exponent of the lowest bit; the number is m * 2^e. An operation is the exact
   result rounded to the nearest double, ties to the even mantissa. *)

\* the bits of a double's mantissa
Precision == 53

\* the bits of a limb: sums and products are carried out limb by limb
LimbBits == 15

Limb == 2^LimbBits

\* without the leading (last) zeros
Strip(bs) ==
    LET set == {i \in 1..Len(bs) : bs[i] = 1}
    IN  IF set = {} THEN <<>>
        ELSE SubSeq(bs, 1, CHOOSE i \in set : \A j \in set : j <= i)

\* the bits of a natural number, lowest first
Bits(n) == Strip([i \in 1..31 |-> (n \div 2^(i - 1)) % 2])

\* the natural number of a sequence of bits
RECURSIVE BitsValue(_)
BitsValue(bs) == IF bs = <<>> THEN 0 ELSE bs[1] + 2 * BitsValue(Tail(bs))

\* the limbs of a sequence of bits, lowest first, and back
Limbs(bs) ==
    [j \in 1..((Len(bs) + LimbBits - 1) \div LimbBits) |->
        BitsValue(SubSeq(bs, LimbBits * (j - 1) + 1,
                         IF LimbBits * j < Len(bs) THEN LimbBits * j ELSE Len(bs)))]

FromLimbs(ls) ==
    Strip([i \in 1..(LimbBits * Len(ls)) |->
              (ls[(i - 1) \div LimbBits + 1] \div 2^((i - 1) % LimbBits)) % 2])

LimbAt(ls, j) == IF j <= Len(ls) THEN ls[j] ELSE 0

\* a + b from limb j on, with carry c
RECURSIVE LimbsAddFrom(_, _, _, _)
LimbsAddFrom(a, b, j, c) ==
    IF j > Max2(Len(a), Len(b))
    THEN <<c>>
    ELSE LET s == LimbAt(a, j) + LimbAt(b, j) + c
         IN  <<s % Limb>> \o LimbsAddFrom(a, b, j + 1, s \div Limb)

BitsAdd(a, b) == FromLimbs(LimbsAddFrom(Limbs(a), Limbs(b), 1, 0))

\* a - b from limb j on, with borrow c, for a >= b
RECURSIVE LimbsSubFrom(_, _, _, _)
LimbsSubFrom(a, b, j, c) ==
    IF j > Len(a)
    THEN <<>>
    ELSE LET s == LimbAt(a, j) - LimbAt(b, j) - c
         IN  <<s % Limb>> \o LimbsSubFrom(a, b, j + 1, IF s < 0 THEN 1 ELSE 0)

BitsSub(a, b) == FromLimbs(LimbsSubFrom(Limbs(a), Limbs(b), 1, 0))

\* a * k for a natural k below Limb, from limb j on, with carry c
RECURSIVE LimbsMulFrom(_, _, _, _)
LimbsMulFrom(a, k, j, c) ==
    IF j > Len(a)
    THEN <<c>>
    ELSE LET s == a[j] * k + c
         IN  <<s % Limb>> \o LimbsMulFrom(a, k, j + 1, s \div Limb)

BitsMul(a, k) == FromLimbs(LimbsMulFrom(Limbs(a), k, 1, 0))

\* a * 2^n
ShiftLeft(a, n) == IF a = <<>> THEN a ELSE [i \in 1..n |-> 0] \o a

\* the lowest set bit becomes the first
Canonical(m, e) ==
    IF m = <<>> THEN <<m, 0>>
    ELSE LET low == CHOOSE i \in 1..Len(m) : m[i] = 1 /\ \A j \in 1..(i - 1) : m[j] = 0
         IN  <<SubSeq(m, low, Len(m)), e + low - 1>>

\* the double nearest to m * 2^e, ties to even
Round(m, e) ==
    IF Len(m) <= Precision
    THEN Canonical(m, e)
    ELSE LET d == Len(m) - Precision
             kept == SubSeq(m, d + 1, Len(m))
             sticky == \E i \in 1..(d - 1) : m[i] = 1
             up == m[d] = 1 /\ (sticky \/ kept[1] = 1)
         IN  Canonical(IF up THEN BitsAdd(kept, <<1>>) ELSE kept, e + d)

\* an integer as a double
FromInt(n) == Round(Bits(n), 0)

\* the bits of r / d after those of acc (r < d < Limb), a limb at a time, until
\* there are more than the rounding needs; a remainder left over is a last set bit
RECURSIVE DivideFrom(_, _, _, _)
DivideFrom(r, d, acc, e) ==
    IF r = 0 THEN Round(acc, e)
    ELSE IF Len(acc) >= Precision + 2 THEN Round(<<1>> \o acc, e - 1)
    ELSE LET q == (r * Limb) \div d
             low == [i \in 1..LimbBits |-> (q \div 2^(i - 1)) % 2]
         IN  DivideFrom((r * Limb) % d, d, Strip(low \o acc), e - LimbBits)

\* n / d for naturals n and 0 < d < Limb
Divide(n, d) == DivideFrom(n % d, d, Bits(n \div d), 0)

\* a + b
Plus(a, b) ==
    LET e == IF a[2] < b[2] THEN a[2] ELSE b[2]
    IN  Round(BitsAdd(ShiftLeft(a[1], a[2] - e), ShiftLeft(b[1], b[2] - e)), e)

\* a - b for a >= b
Minus(a, b) ==
    LET e == IF a[2] < b[2] THEN a[2] ELSE b[2]
    IN  Round(BitsSub(ShiftLeft(a[1], a[2] - e), ShiftLeft(b[1], b[2] - e)), e)

\* k * a for a natural k (a double itself: the product is exact before rounding)
Times(k, a) == Round(BitsMul(a[1], k), a[2])

\* Math.floor
Floor(a) ==
    IF a[2] >= 0
    THEN BitsValue(ShiftLeft(a[1], a[2]))
    ELSE BitsValue(SubSeq(a[1], 1 - a[2], Len(a[1])))

-----------------------------------------------------------------------------
(* opencvUtils: the region extractAverageColorRect samples *)

\* const margin = (100 - restrictedArea) / 200
Margin(restrictedArea) == Divide(100 - restrictedArea, 200)

\* (a sample taken from the rectangle's corner: the margin is not added)
sampleRectFromCorner(x, y, width, height, restrictedArea) ==
    LET inner == Minus(FromInt(1), Times(2, Margin(restrictedArea)))
    IN  [sampleX |-> x, sampleY |-> y,
         sampleW |-> Floor(Times(width, inner)),
         sampleH |-> Floor(Times(height, inner))]

\* sampleX, sampleY, sampleW, sampleH of extractAverageColorRect
sampleRect(x, y, width, height, restrictedArea) ==
    LET margin == Margin(restrictedArea)
        inner == Minus(FromInt(1), Times(2, margin))
    IN  [sampleX |-> Floor(Plus(FromInt(x), Times(width, margin))),
         sampleY |-> Floor(Plus(FromInt(y), Times(height, margin))),
         sampleW |-> Floor(Times(width, inner)),
         sampleH |-> Floor(Times(height, inner))]

\* Bound of the rectangle sampling specification: the sides of the rectangles
MaxSide == 10

\* the rectangles handed to extractAverageColorRect: boundingRect gives integers
RectInputs ==
    {[x |-> o, y |-> 7 - o, width |-> w, height |-> MaxSide + 1 - w] :
        o \in {0, 7}, w \in 1..MaxSide}
    \cup {[x |-> 7, y |-> 0, width |-> 90, height |-> 180]}

\* the percentages between the ends of the Sample Area slider (min 10, max 100;
\* the slider itself moves in steps of 5, which are among them)
RestrictedAreas == 10..100

\* a call of extractAverageColorRect is about to run
InitSampleRect ==
    /\ images = <<0, 1>>
    /\ currentImageIndex = 0
    /\ shapes = <<>>
    /\ cvReady = TRUE
    /\ isDetecting = FALSE
    /\ pending = NoPending
    /\ mode = "rectangle"
    /\ committedPoints = <<>>
    /\ regressionModels = <<>>
    /\ nextImg = 2
    /\ boundingBox = NoBox
    /\ lastOp = Op("init", 0, "")
    /\ NoCache
    /\ sample \in {[stage |-> "rect", rect |-> r, restrictedArea |-> a] :
                      r \in RectInputs, a \in RestrictedAreas}

\* extractAverageColorRect up to getImageData: the region it reads, or the early
\* return of [0, 0, 0] when the region is empty
ExtractRect ==
    /\ sample.stage = "rect"
    /\ LET r == sample.rect
           region == sampleRect(r.x, r.y, r.width, r.height, sample.restrictedArea)
       IN  sample' = [stage |-> "sampledRect", rect |-> r,
                      restrictedArea |-> sample.restrictedArea,
                      region |-> region,
                      read |-> ~(region.sampleW <= 0 \/ region.sampleH <= 0)]
    /\ UNCHANGED <<cacheVars, images, currentImageIndex, shapes, cvReady, isDetecting, pending, mode,
                   committedPoints, regressionModels, nextImg, boundingBox, lastOp>>

SpecSampleRect == InitSampleRect /\ [][ExtractRect]_vars

-----------------------------------------------------------------------------
(* opencvUtils: the pixels extractAverageColor averages *)

\* Bounds of the circle sampling specification: the side of the canvas and the
\* radii of the circles
ImageSize == 16

MinCircle == 4

MaxCircle == 6

\* the picture of one disc: red inside the circle, blue outside it
DiscImage(circle) == [width |-> ImageSize, height |-> ImageSize, disc |-> circle]

\* a pixel of ctx.getImageData: the canvas pixel, or transparent black outside
\* the canvas
PixelAt(image, X, Y) ==
    IF X < 0 \/ Y < 0 \/ X >= image.width \/ Y >= image.height THEN <<0, 0, 0>>
    ELSE IF (X - image.disc.x) * (X - image.disc.x) + (Y - image.disc.y) * (Y - image.disc.y)
               <= image.disc.radius * image.disc.radius
    THEN <<255, 0, 0>>
    ELSE <<0, 0, 255>>

\* Math.max(1, Math.floor(radius * settings.restrictedArea / 100))
sampleRadius(radius, restrictedArea) ==
    Max2(1, Floor(Divide(radius * restrictedArea, 100)))

\* dx * dx + dy * dy <= radius * radius, for dx = px - radius, dy = py - radius
Included(px, py, radius) ==
    (px - radius) * (px - radius) + (py - radius) * (py - radius) <= radius * radius

\* the pixels of the block read by getImageData(x, y, size, size) that pass the test
IncludedPixels(radius) ==
    {q \in (0..(2 * radius - 1)) \X (0..(2 * radius - 1)) : Included(q[1], q[2], radius)}

\* the image coordinates of the pixels extractAverageColor adds up; centerX,
\* centerY and radius are whole numbers here, so the floors are the numbers
sampledPixels(centerX, centerY, radius) ==
    LET x == Max2(0, centerX - radius)
        y == Max2(0, centerY - radius)
    IN  {<<x + q[1], y + q[2]>> : q \in IncludedPixels(radius)}

\* the inner loop: channel ch of row py from column px on
RECURSIVE SumRow(_, _, _, _, _, _, _)
SumRow(image, x, y, radius, py, px, ch) ==
    IF px >= 2 * radius THEN 0
    ELSE (IF Included(px, py, radius) THEN PixelAt(image, x + px, y + py)[ch] ELSE 0)
         + SumRow(image, x, y, radius, py, px + 1, ch)

\* the outer loop: channel ch from row py on
RECURSIVE SumRows(_, _, _, _, _, _)
SumRows(image, x, y, radius, py, ch) ==
    IF py >= 2 * radius THEN 0
    ELSE SumRow(image, x, y, radius, py, 0, ch) + SumRows(image, x, y, radius, py + 1, ch)

\* Math.round(sum / count) for naturals
RoundDiv(sum, count) == (2 * sum + count) \div (2 * count)

extractAverageColor(image, centerX, centerY, radius) ==
    LET x == Max2(0, centerX - radius)
        y == Max2(0, centerY - radius)
        size == 2 * radius
        count == Cardinality(IncludedPixels(radius))
    IN  IF size <= 0 \/ count = 0 THEN <<0, 0, 0>>
        ELSE [ch \in 1..3 |-> RoundDiv(SumRows(image, x, y, radius, 0, ch), count)]

\* the circles HoughCircles reports: centres over the canvas, the edges included
CircleInputs ==
    {[x |-> cx, y |-> cy, radius |-> r] :
        cx \in {c \in 0..(ImageSize - 1) : c % 3 = 2},
        cy \in {c \in 0..(ImageSize - 1) : c % 3 = 2},
        r \in MinCircle..MaxCircle}

\* a circle of the picture is about to be sampled
InitSampleCircle ==
    /\ images = <<0, 1>>
    /\ currentImageIndex = 0
    /\ shapes = <<>>
    /\ cvReady = TRUE
    /\ isDetecting = FALSE
    /\ pending = NoPending
    /\ mode = "circle"
    /\ committedPoints = <<>>
    /\ regressionModels = <<>>
    /\ nextImg = 2
    /\ boundingBox = NoBox
    /\ lastOp = Op("init", 0, "")
    /\ NoCache
    /\ sample \in {[stage |-> "circle", circle |-> c, restrictedArea |-> a] :
                      c \in CircleInputs, a \in {50, 70, 100}}

\* autoDetectCircles, "Extract color from the center region": the sample radius
\* and the call of extractAverageColor on the picture of the circle
ExtractCircle ==
    /\ sample.stage = "circle"
    /\ LET c == sample.circle
           radius == sampleRadius(c.radius, sample.restrictedArea)
       IN  sample' = [stage |-> "sampledCircle", circle |-> c,
                      restrictedArea |-> sample.restrictedArea,
                      sampleRadius |-> radius,
                      pixels |-> sampledPixels(c.x, c.y, radius),
                      color |-> extractAverageColor(DiscImage(c), c.x, c.y, radius)]
    /\ UNCHANGED <<cacheVars, images, currentImageIndex, shapes, cvReady, isDetecting, pending, mode,
                   committedPoints, regressionModels, nextImg, boundingBox, lastOp>>

SpecSampleCircle == InitSampleCircle /\ [][ExtractCircle]_vars

\* C20: for a detected circle anywhere in the image, every pixel that
\* extractAverageColor adds to the average lies within the sample radius of the
\* circle's centre, and a picture that is red inside the circle and blue
\* outside yields exactly red.
C20_OnlyInsetDisc ==
    sample.stage = "sampledCircle" =>
        LET c == sample.circle
            r == sample.sampleRadius
        IN  /\ \A q \in sample.pixels :
                  (q[1] - c.x) * (q[1] - c.x) + (q[2] - c.y) * (q[2] - c.y) <= r * r
            /\ sample.color = <<255, 0, 0>>

-----------------------------------------------------------------------------
(* opencvUtils: the contours autoDetectRectangles keeps *)

\* Bound of the contour specification: the height of the bounding rectangles
ContourHeight == 200

\* the contours findContours may return: areas at and beside the limits, three
\* to five corners, bounding rectangles at and beside the ratios 1/2 and 2
ContourInputs ==
    {[area |-> a, rows |-> n, x |-> 10, y |-> 20, width |-> w, height |-> ContourHeight] :
        a \in {minArea - 1, minArea, 900, maxArea, maxArea + 1},
        n \in {3, 4, 5},
        w \in {ContourHeight \div 2 - 1, ContourHeight \div 2, ContourHeight \div 2 + 1,
               ContourHeight,
               2 * ContourHeight - 1, 2 * ContourHeight, 2 * ContourHeight + 1}}

\* a picture with one contour is about to be searched for rectangles
InitContour ==
    /\ images = <<0, 1>>
    /\ currentImageIndex = 0
    /\ shapes = <<>>
    /\ cvReady = TRUE
    /\ isDetecting = FALSE
    /\ pending = NoPending
    /\ mode = "rectangle"
    /\ committedPoints = <<>>
    /\ regressionModels = <<>>
    /\ nextImg = 2
    /\ boundingBox = NoBox
    /\ lastOp = Op("init", 0, "")
    /\ NoCache
    /\ sample \in {[stage |-> "contour", contour |-> c] : c \in ContourInputs}

\* autoDetectRectangles on the picture: the shapes it returns
DetectContour ==
    /\ sample.stage = "contour"
    /\ sample' = [stage |-> "searched", contour |-> sample.contour,
                  shapes |-> autoDetectRectangles(<<sample.contour>>, currentImageIndex, {},
                                                  images[currentImageIndex + 1], {})]
    /\ UNCHANGED <<cacheVars, images, currentImageIndex, shapes, cvReady, isDetecting, pending, mode,
                   committedPoints, regressionModels, nextImg, boundingBox, lastOp>>

SpecContour == InitContour /\ [][DetectContour]_vars

\* C21: autoDetectRectangles emits a shape for a contour exactly when its area
\* is within [minArea, maxArea], its approximation has 4 vertices and the ratio
\* width/height of its bounding rectangle is within [0.5, 2.0], both ends
\* included.
C21_ContourFilter ==
    sample.stage = "searched" =>
        LET c == sample.contour
        IN  (Len(sample.shapes) = 1)
               <=> /\ minArea <= c.area /\ c.area <= maxArea
                   /\ c.rows = 4
                   /\ 2 * c.width >= c.height /\ c.width <= 2 * c.height

-----------------------------------------------------------------------------
(* Shapes and their images *)

\* C22: every shape's imageIndex designates an image that exists, and that
\* image is the one the shape was drawn or detected on.
C22_ShapesStayWithImages ==
    \A i \in 1..Len(shapes) :
        /\ shapes[i].imageIndex >= 0
        /\ shapes[i].imageIndex < Len(images)
        /\ images[shapes[i].imageIndex + 1] = shapes[i].origin

-----------------------------------------------------------------------------
(* ShapesList: Quick Sort *)

\* Bounds of the Quick Sort specification
SortShapes == 3

SortDetect == 2

\* [...currentShapes].sort(...): by y or by x, ascending or descending; the sort
\* is stable, shapes at the same position keep their order
sortShapes(ss, sortDirection, sortOrder) ==
    LET pos(s) == IF sortDirection = "top-to-bottom" THEN s.y ELSE s.x
        before(j, i) ==
            \/ IF sortOrder = "ascending" THEN pos(ss[j]) < pos(ss[i])
                                           ELSE pos(ss[j]) > pos(ss[i])
            \/ pos(ss[j]) = pos(ss[i]) /\ j < i
        rank(i) == Cardinality({j \in 1..Len(ss) : before(j, i)})
    IN  [n \in 1..Len(ss) |-> ss[CHOOSE i \in 1..Len(ss) : rank(i) = n - 1]]

\* labels[idx] || `${idx + 1}`   (idx counts from 0)
sortLabel(idx) == IF idx < Len(labels) THEN labels[idx + 1] ELSE ToString(idx + 1)

\* setShapes(prev => prev.map(s => update ? { ...s, label: update.label } : s))
quickSort(prev, sorted) ==
    [i \in 1..Len(prev) |->
        IF \E n \in 1..Len(sorted) : sorted[n].id = prev[i].id
        THEN [prev[i] EXCEPT !.label =
                 sortLabel((CHOOSE n \in 1..Len(sorted) : sorted[n].id = prev[i].id) - 1)]
        ELSE prev[i]]

\* the Apply button of the Quick Sort panel, shown while the image has shapes
handleQuickSort(sortDirection, sortOrder) ==
    /\ Len(ShapesOn(shapes, currentImageIndex)) # 0
    /\ lastOp' = Op("quickSort", Len(ShapesOn(shapes, currentImageIndex)), "")
    /\ shapes' = quickSort(shapes,
                           sortShapes(ShapesOn(shapes, currentImageIndex),
                                      sortDirection, sortOrder))
    /\ UNCHANGED <<cacheVars, images, currentImageIndex, cvReady, isDetecting, pending, mode,
                   committedPoints, regressionModels, nextImg, boundingBox, sample>>

NextSort ==
    \/ handlePrevImage
    \/ handleNextImage
    \/ \E d \in Drafts : handleMouseUp(d, SortShapes)
    \/ \E n \in 1..SortDetect : AutoDetectRun(n, SortShapes)
    \/ \E sortDirection \in {"top-to-bottom", "left-to-right"} :
          \E sortOrder \in {"ascending", "descending"} :
             handleQuickSort(sortDirection, sortOrder)

SpecSort == InitDetect /\ [][NextSort]_vars

\* C23: after Quick Sort the current image's shapes have pairwise distinct
\* labels, none of them a label that a shape on another image carries, and the
\* shapes on other images are unchanged.
C23_QuickSortGlobalLabels ==
    [][\A sortDirection \in {"top-to-bottom", "left-to-right"} :
          \A sortOrder \in {"ascending", "descending"} :
             handleQuickSort(sortDirection, sortOrder)
                => LET on == ShapesOn(shapes', currentImageIndex)
                       off == ShapesOff(shapes', currentImageIndex)
                   IN  /\ \A i, j \in 1..Len(on) : i # j => on[i].label # on[j].label
                       /\ \A i \in 1..Len(on) : on[i].label \notin ShapeLabels(off)
                       /\ off = ShapesOff(shapes, currentImageIndex)
    ]_vars

-----------------------------------------------------------------------------
(* The colour of a drawn shape and of a detected shape *)

\* the pixels of getImageData(x, y, w, h)
BlockPixels(x, y, w, h) == (x..(x + w - 1)) \X (y..(y + h - 1))

\* channel ch of the pixels of row Y from column X on
RECURSIVE SumPixelRow(_, _, _, _, _, _)
SumPixelRow(image, pixels, X, Y, last, ch) ==
    IF X > last THEN 0
    ELSE (IF <<X, Y>> \in pixels THEN PixelAt(image, X, Y)[ch] ELSE 0)
         + SumPixelRow(image, pixels, X + 1, Y, last, ch)

\* channel ch of the pixels of the rows from Y on
RECURSIVE SumPixelRows(_, _, _, _, _)
SumPixelRows(image, pixels, Y, last, ch) ==
    IF Y > last THEN 0
    ELSE SumPixelRow(image, pixels, -ImageSize, Y, 2 * ImageSize, ch)
         + SumPixelRows(image, pixels, Y + 1, last, ch)

\* the sums r, g, b over the pixels divided by their number and rounded;
\* [0, 0, 0] when there is none
AverageColor(image, pixels) ==
    IF pixels = {} THEN <<0, 0, 0>>
    ELSE [ch \in 1..3 |->
             RoundDiv(SumPixelRows(image, pixels, -ImageSize, 2 * ImageSize, ch),
                      Cardinality(pixels))]

\* imageUtils.extractColorFromShape: the pixels it averages, for a shape with
\* whole-number geometry: the whole rectangle, or the disc of the shape's own
\* radius in its bounding square
shapePixels(shape) ==
    IF shape.type = "rectangle"
    THEN BlockPixels(shape.x, shape.y, Max2(1, shape.width), Max2(1, shape.height))
    ELSE LET r == shape.radius
             size == Max2(1, 2 * r)
         IN  {<<shape.x - r + q[1], shape.y - r + q[2]>> :
                 q \in {b \in (0..(size - 1)) \X (0..(size - 1)) :
                          ~((2 * b[1] - size) * (2 * b[1] - size)
                            + (2 * b[2] - size) * (2 * b[2] - size) > 4 * r * r)}}

extractColorFromShape(image, shape) == AverageColor(image, shapePixels(shape))

\* the pixels extractAverageColorRect averages: its sample region, or none
sampleRectPixels(x, y, width, height, restrictedArea) ==
    LET g == sampleRect(x, y, width, height, restrictedArea)
    IN  IF g.sampleW <= 0 \/ g.sampleH <= 0 THEN {}
        ELSE BlockPixels(g.sampleX, g.sampleY, g.sampleW, g.sampleH)

extractAverageColorRect(image, x, y, width, height, restrictedArea) ==
    AverageColor(image, sampleRectPixels(x, y, width, height, restrictedArea))

\* the pixels the detector of the shape's type averages for this geometry
detectorPixels(shape, restrictedArea) ==
    IF shape.type = "rectangle"
    THEN sampleRectPixels(shape.x, shape.y, shape.width, shape.height, restrictedArea)
    ELSE sampledPixels(shape.x, shape.y, sampleRadius(shape.radius, restrictedArea))

\* the colour the detector of the shape's type stores for this geometry
detectorColor(image, shape, restrictedArea) ==
    IF shape.type = "rectangle"
    THEN extractAverageColorRect(image, shape.x, shape.y, shape.width, shape.height,
                                 restrictedArea)
    ELSE extractAverageColor(image, shape.x, shape.y,
                             sampleRadius(shape.radius, restrictedArea))

\* the geometries sampled on both paths, well inside the canvas
GeometryInputs ==
    {[type |-> "rectangle", x |-> 2, y |-> 2, width |-> w, height |-> h, radius |-> 0] :
        w \in {4, 6, 10}, h \in {4, 10}}
    \cup {[type |-> "circle", x |-> 8, y |-> 8, width |-> 0, height |-> 0, radius |-> r] :
             r \in MinCircle..MaxCircle}

\* the picture around a geometry: a red core of radius 2 at its centre, blue around
CoreImage(shape) ==
    DiscImage(IF shape.type = "rectangle"
              THEN [x |-> shape.x + shape.width \div 2, y |-> shape.y + shape.height \div 2,
                    radius |-> 2]
              ELSE [x |-> shape.x, y |-> shape.y, radius |-> 2])

\* a geometry is about to be sampled by the draw-commit path and by the detector
InitSamplePaths ==
    /\ images = <<0, 1>>
    /\ currentImageIndex = 0
    /\ shapes = <<>>
    /\ cvReady = TRUE
    /\ isDetecting = FALSE
    /\ pending = NoPending
    /\ mode = "circle"
    /\ committedPoints = <<>>
    /\ regressionModels = <<>>
    /\ nextImg = 2
    /\ boundingBox = NoBox
    /\ lastOp = Op("init", 0, "")
    /\ NoCache
    /\ sample \in {[stage |-> "paths", shape |-> g, restrictedArea |-> a,
                    manual |-> Undefined, auto |-> Undefined] :
                      g \in GeometryInputs, a \in {10, 50, 70, 100}}

\* handleMouseUp, "Extract color": extractColorFromShape on the new shape
SampleDrawn ==
    /\ sample.stage = "paths"
    /\ sample.manual = Undefined
    /\ sample' = [sample EXCEPT !.manual =
                     [pixels |-> shapePixels(sample.shape),
                      color |-> extractColorFromShape(CoreImage(sample.shape), sample.shape)]]
    /\ UNCHANGED <<cacheVars, images, currentImageIndex, shapes, cvReady, isDetecting, pending, mode,
                   committedPoints, regressionModels, nextImg, boundingBox, lastOp>>

\* the detectors' colour extraction for the same geometry
SampleDetected ==
    /\ sample.stage = "paths"
    /\ sample.auto = Undefined
    /\ sample' = [sample EXCEPT !.auto =
                     [pixels |-> detectorPixels(sample.shape, sample.restrictedArea),
                      color |-> detectorColor(CoreImage(sample.shape), sample.shape,
                                              sample.restrictedArea)]]
    /\ UNCHANGED <<cacheVars, images, currentImageIndex, shapes, cvReady, isDetecting, pending, mode,
                   committedPoints, regressionModels, nextImg, boundingBox, lastOp>>

NextSamplePaths == SampleDrawn \/ SampleDetected

SpecSamplePaths == InitSamplePaths /\ [][NextSamplePaths]_vars

\* C24: for the same image, geometry and Sample Area setting, the draw-commit
\* path and the auto-detect path average over the same pixels and store the
\* same colour.
C24_SamePixelsBothPaths ==
    (sample.stage = "paths" /\ sample.manual # Undefined /\ sample.auto # Undefined)
        => /\ sample.manual.pixels = sample.auto.pixels
           /\ sample.manual.color = sample.auto.color

-----------------------------------------------------------------------------
(* cacheUtils: the debounced save *)

\* the setTimeout delay of debouncedSaveState
Delay == 500
\* the step of the clock
Tick == 250
\* the clock stops here
MaxTime == 1000
\* calls of debouncedSaveState
MaxCalls == 2
\* images.length is at most this
CacheImages == 2

\* the app states passed to a save, told apart by their colorMode
CacheStates == {"RGB", "CMYK"}

appVars == <<images, currentImageIndex, shapes, cvReady, isDetecting, pending, mode,
             committedPoints, regressionModels, nextImg, boundingBox, sample>>

\* the handle setTimeout returns: one no earlier timer had
FreshHandle == Len(calls) + 1

\* (a clearTimeout that leaves the timer armed)
clearTimeoutKeeping(ts, handle) == ts

\* clearTimeout(handle): the timer, if it has not run, never runs
clearTimeout(ts, handle) == {tm \in ts : tm.handle # handle}

\* setTimeout(callback, Delay): the callback with what it closes over
setTimeout(ts, handle, imgs, state) ==
    ts \cup {[handle |-> handle, due |-> now + Delay, images |-> imgs, state |-> state]}

\* cacheAppState({...state, imageCount}): localStorage.setItem, whose
\* exception (a full store) is caught and leaves the item as it was
cacheAppState(item, state, imageCount, ok) ==
    IF ok THEN [present |-> TRUE, state |-> state, imageCount |-> imageCount]
    ELSE item

\* the test of the timer callback: !cachedState || cachedState.imageCount !== images.length
imagesStale(cachedState, imgs) == ~cachedState.present \/ cachedState.imageCount # imgs

\* time passes
Advance ==
    /\ now + Tick <= MaxTime
    /\ now' = now + Tick
    /\ lastOp' = Op("advance", 0, "")
    /\ UNCHANGED <<appVars, timers, saveTimeout, localStorage, indexedDB, calls, lastWrite>>

\* debouncedSaveState(images, state), images.length = imgs
debouncedSaveState(imgs, state) ==
    /\ Len(calls) < MaxCalls
    /\ timers' = setTimeout(IF saveTimeout # NoTimeout THEN clearTimeout(timers, saveTimeout)
                            ELSE timers,
                            FreshHandle, imgs, state)
    /\ saveTimeout' = FreshHandle
    /\ calls' = Append(calls, [at |-> now, images |-> imgs, state |-> state])
    /\ lastOp' = Op("debouncedSaveState", FreshHandle, "")
    /\ UNCHANGED <<appVars, now, localStorage, indexedDB, lastWrite>>

\* the callback of a timer runs, no earlier than its delay; ok: setItem did not throw
saveFired(tm, ok) ==
    /\ tm \in timers
    /\ now >= tm.due
    /\ LET cachedState == cacheAppState(localStorage, tm.state, tm.images, ok)
           stale == imagesStale(cachedState, tm.images)
       IN  /\ localStorage' = cachedState
           /\ indexedDB' = IF stale THEN tm.images ELSE indexedDB
           /\ lastWrite' = [call |-> tm.handle, state |-> tm.state, stored |-> ok,
                            images |-> stale]
           /\ lastOp' = Op("saveFired", tm.handle, "")
    /\ timers' = timers \ {tm}
    /\ UNCHANGED <<appVars, now, saveTimeout, calls>>

\* forceSaveState(images, state)
forceSaveState(imgs, state, ok) ==
    /\ timers' = IF saveTimeout # NoTimeout THEN clearTimeout(timers, saveTimeout) ELSE timers
    /\ localStorage' = cacheAppState(localStorage, state, imgs, ok)
    /\ indexedDB' = imgs
    /\ lastWrite' = [call |-> 0, state |-> state, stored |-> ok, images |-> TRUE]
    /\ lastOp' = Op("forceSaveState", 0, "")
    /\ UNCHANGED <<appVars, now, saveTimeout, calls>>

\* clearAllCache()
clearAllCache ==
    /\ localStorage.present \/ indexedDB # 0
    /\ localStorage' = NoState
    /\ indexedDB' = 0
    /\ lastOp' = Op("clearAllCache", 0, "")
    /\ UNCHANGED <<appVars, now, timers, saveTimeout, calls, lastWrite>>

InitCache ==
    /\ images = <<>>
    /\ currentImageIndex = 0
    /\ shapes = <<>>
    /\ cvReady = FALSE
    /\ isDetecting = FALSE
    /\ pending = NoPending
    /\ mode = "circle"
    /\ committedPoints = <<>>
    /\ regressionModels = <<>>
    /\ nextImg = 0
    /\ boundingBox = NoBox
    /\ NoCache
    /\ sample = NoSample
    /\ lastOp = Op("init", 0, "")

NextCache ==
    \/ Advance
    \/ \E imgs \in 1..CacheImages, state \in CacheStates : debouncedSaveState(imgs, state)
    \/ \E tm \in timers, ok \in BOOLEAN : saveFired(tm, ok)
    \/ \E imgs \in 1..CacheImages, state \in CacheStates, ok \in BOOLEAN :
          forceSaveState(imgs, state, ok)
    \/ clearAllCache

SpecCache == InitCache /\ [][NextCache]_vars

\* a step in which the callback of a debounced save runs
SaveFires == lastOp'.op = "saveFired" /\ timers' # timers

\* C25: a debounced save runs only once 500 ms have passed since the most
\* recent call of debouncedSaveState, what it writes is the state of that most
\* recent call, and a scheduled save that was followed by another call never
\* runs (the save that runs is the one the most recent call scheduled).
C25_DebouncedSave ==
    [][SaveFires =>
          LET w == lastWrite'
              last == calls[Len(calls)]
          IN  /\ Len(calls) > 0
              /\ w.call = Len(calls)
              /\ now >= last.at + Delay
              /\ w.state = last.state
              /\ (w.stored => localStorage'.state = last.state
                              /\ localStorage'.imageCount = last.images)]_vars

\* a save ran although an earlier call had been superseded
C25_Witness ==
    /\ lastOp.op = "saveFired"
    /\ Len(calls) >= 2
    /\ calls[Len(calls)].at - calls[Len(calls) - 1].at < Delay
    /\ lastWrite.call = Len(calls)
    /\ lastWrite.stored

\* C26: when a debounced save runs, the images are written to IndexedDB
\* exactly when no state was cached before or the count recorded in the
\* previously cached state differs from the number of images.
C26_ImagesWrittenIffCountChanged ==
    [][SaveFires =>
          LET w == lastWrite'
              imgs == calls[w.call].images
          IN  w.images <=> imagesStale(localStorage, imgs)]_vars

-----------------------------------------------------------------------------
(* handleAutoDetect: what happens between the click and the callback *)

\* a step in which the deferred callback commits detected shapes
CallbackCommits ==
    /\ lastOp'.op = "detectFound"
    /\ lastOp'.alert = ""
    /\ pending.active
    /\ ~pending'.active

\* C27: whatever ran between the click and the callback, the shapes the
\* callback commits carry labels that no shape of another image carries at
\* commit time.
C27_CommittedLabelsUnusedElsewhere ==
    [][CallbackCommits =>
          ShapeLabels(ShapesOn(shapes', pending.currentImageIndex))
              \cap ShapeLabels(ShapesOff(shapes', pending.currentImageIndex)) = {}]_vars

-----------------------------------------------------------------------------
(* The current image: loads, navigation, thumbnail selection, removal *)

\* images held at a time
NavImages == 3
\* images loaded in all
NavLoads == 6

NextImages ==
    \/ \E k \in 1..2 : LoadImagesWithin(k, NavImages, NavLoads)
    \/ handlePrevImage
    \/ handleNextImage
    \/ \E idx \in 0..(NavImages - 1) : SelectImage(idx)
    \/ \E idx \in 0..(NavImages - 1) : removeImage(idx)

SpecImages == Init /\ [][NextImages]_vars

\* C28: currentImageIndex is never negative and, whenever an image is loaded,
\* is below images.length; removeImage(k) with k other than the current index
\* leaves the current index on the image it designated before.
C28_CurrentImageValid ==
    /\ [](/\ currentImageIndex >= 0
          /\ (Len(images) > 0 => currentImageIndex < Len(images)))
    /\ [][(lastOp'.op = "removeImage" /\ Len(images') < Len(images)
           /\ lastOp'.arg # currentImageIndex)
             => images'[currentImageIndex' + 1] = images[currentImageIndex + 1]]_vars

\* an image before the current one was removed and the index stepped back with it
C28_Witness ==
    /\ lastOp.op = "removeImage"
    /\ lastOp.arg = 0
    /\ currentImageIndex = 1
    /\ Len(images) = 2
    /\ images[2] # 1

-----------------------------------------------------------------------------
(* handleAutoDetect: the deferred callback always runs *)

\* shapes in the registry
LiveShapes == 2
\* candidates a detection finds
LiveDetect == 1

\* the callback of setTimeout(..., 50), whatever the detection does
DetectCallback ==
    \/ \E n \in 0..LiveDetect : AutoDetectFound(n, LiveShapes)
    \/ AutoDetectThrows

NextLive ==
    \/ handlePrevImage
    \/ handleNextImage
    \/ ClearShapes
    \/ \E d \in Drafts : handleMouseUp(d, LiveShapes)
    \/ \E idx \in 0..1 : removeImage(idx)
    \/ AutoDetectClick
    \/ DetectCallback

\* the browser runs every timer callback that is due: the callback is not
\* postponed forever
SpecLive == InitDetect /\ [][NextLive]_vars /\ WF_vars(DetectCallback)

\* C29: every request that sets isDetecting ends with isDetecting reset, whether
\* the detection finds shapes, finds none or throws.
C29_DetectingEnds == isDetecting ~> ~isDetecting

\* a detection that threw has reset the flag
C29_Witness == ~isDetecting /\ ~pending.active /\ lastOp.op = "detectThrew"

-----------------------------------------------------------------------------
(* runRegression: the degeneracy test in double arithmetic *)

\* a * b for sequences of bits, a limb of b at a time
RECURSIVE BitsProductFrom(_, _, _)
BitsProductFrom(a, ls, j) ==
    IF j > Len(ls) THEN <<>>
    ELSE BitsAdd(BitsMul(a, ls[j]), ShiftLeft(BitsProductFrom(a, ls, j + 1), LimbBits))

\* a < b for sequences of bits without leading zeros
BitsLess(a, b) ==
    IF Len(a) # Len(b) THEN Len(a) < Len(b)
    ELSE \E i \in 1..Len(a) : a[i] < b[i] /\ \A j \in (i + 1)..Len(a) : a[j] = b[j]

\* a * b
Product(a, b) == Round(BitsProductFrom(a[1], Limbs(b[1]), 1), a[2] + b[2])

\* a < b
Less(a, b) ==
    LET e == IF a[2] < b[2] THEN a[2] ELSE b[2]
    IN  BitsLess(ShiftLeft(a[1], a[2] - e), ShiftLeft(b[1], b[2] - e))

\* Math.abs(a - b)
AbsDifference(a, b) == IF Less(a, b) THEN Minus(b, a) ELSE Minus(a, b)

\* the double 1e-10, 7737125245533627 * 2^-86
Epsilon == <<FromLimbs(<<15803, 13231, 29567, 219>>), -86>>

\* the element of a singleton (its value is computed before it is used)
Only(S) == CHOOSE v \in S : TRUE

\* <<sumX, sumXX>> after points.forEach: x and x * x of each point added in order
RECURSIVE SumsFrom(_, _, _)
SumsFrom(sumX, sumXX, xs) ==
    IF xs = <<>> THEN <<sumX, sumXX>>
    ELSE Only({SumsFrom(sx, sxx, Tail(xs)) :
                  sx \in {Plus(sumX, Head(xs))},
                  sxx \in {Plus(sumXX, xx) : xx \in {Product(Head(xs), Head(xs))}}})

\* Math.abs(denominator) for the concentrations xs, denominator = n * sumXX - sumX * sumX
absDenominator(xs) ==
    Only({AbsDifference(l, r) :
             l \in {Times(Len(xs), sums[2]) : sums \in {SumsFrom(FromInt(0), FromInt(0), xs)}},
             r \in {Product(sums[1], sums[1]) : sums \in {SumsFrom(FromInt(0), FromInt(0), xs)}}})

\* if (Math.abs(denominator) < 1e-10) return
channelSkipped(xs) == \E d \in {absDenominator(xs)} : Less(d, Epsilon)

\* the keys of newModels once channels.forEach has run over points of
\* concentrations xs: the test of each channel reads the concentrations only
fittedChannels(xs) == {channels[i] : i \in {j \in 1..Len(channels) : ~channelSkipped(xs)}}

\* the concentrations typed, in tenths
Tenths == {1, 10, 1783, 1808, 1817}

\* the joined points of a run, by their concentrations in tenths
RunInputs == UNION {[1..n -> Tenths] : n \in 2..3}

\* a run is about to fit the channels of its joined points
InitDegenerate ==
    /\ images = <<0>>
    /\ currentImageIndex = 0
    /\ shapes = <<>>
    /\ cvReady = TRUE
    /\ isDetecting = FALSE
    /\ pending = NoPending
    /\ mode = "circle"
    /\ committedPoints = <<>>
    /\ regressionModels = <<>>
    /\ nextImg = 1
    /\ boundingBox = NoBox
    /\ NoCache
    /\ lastOp = Op("init", 0, "")
    /\ sample \in {[stage |-> "joined", tenths |-> ks] : ks \in RunInputs}

\* runRegression past the check of two joined points
FitChannels ==
    /\ sample.stage = "joined"
    /\ \E xs \in {[i \in 1..Len(sample.tenths) |-> Only({Divide(sample.tenths[i], 10)})]} :
          sample' = [stage |-> "fitted", tenths |-> sample.tenths,
                     stored |-> fittedChannels(xs), alert |-> ""]
    /\ UNCHANGED <<cacheVars, images, currentImageIndex, shapes, cvReady, isDetecting, pending,
                   mode, committedPoints, regressionModels, nextImg, boundingBox, lastOp>>

SpecDegenerate == InitDegenerate /\ [][FitChannels]_vars

\* C30: a run stores models for all eight channels or for none, and for none,
\* without an alert, when all joined concentrations are equal.
C30_AllOrNothing ==
    sample.stage = "fitted"
        => /\ sample.stored \in {{}, {channels[i] : i \in 1..Len(channels)}}
           /\ (\A i \in 1..Len(sample.tenths) : sample.tenths[i] = sample.tenths[1])
                 => (sample.stored = {} /\ sample.alert = "")

=============================================================================
